---- MODULE Spec2Model ----
(***************************************************************************)
(* The agent-session / grant handshake and the resilient request pipeline  *)
(* of the fresh-auth command-line clients                                  *)
(*   office-cli.js   (Microsoft Graph through the auth broker)             *)
(*   notion-query.js (Notion through the auth broker)                      *)
(* One CLI invocation is one behaviour: a command is chosen in Init, every *)
(* await of the code is one step, and every answer of the broker or of the *)
(* proxied API is a nondeterministic choice.                               *)
(***************************************************************************)
EXTENDS Integers, Sequences, FiniteSets, TLC

VARIABLES
    client,         \* "office" | "notion": which script runs
    cmd,            \* the command of this invocation
    autoEnabled,    \* AUTO_REQUEST_ENABLED (OFFICE_AUTO_REQUEST !== "0")
    currentService, \* office-cli.js: let currentService
    files,          \* contents of the candidate session files, in order
    pc,             \* position of the process
    phase,          \* step of the command that the running call belongs to
    fn,             \* the pipeline function that is running
    attempt,        \* its attempt parameter
    session,        \* the agentSession local of the running function
    waitSession,    \* the agentSession local of waitForGrantApproval
    grantService,   \* the service parameter of requestGrant
    resp,           \* the response being handled
    data,           \* the parsed error body an inline path holds
    grantRet,       \* who called the grant flow
    grantResp,      \* the answer to POST /api/auth-request
    deadline,       \* waitForGrantApproval: deadline
    lastStatus,     \* waitForGrantApproval: lastStatus
    clock,          \* Date.now(), in ms since the current call began
    nDown,          \* requests sent to the proxy by the current call
    nGrant,         \* grant requests sent by the current call
    nPolls,         \* GETs of the poll URL in the current grant flow
    nSleeps,        \* sleeps in the current grant flow
    nFollow,        \* redirect follow-ups of the current content download
    lastReq,        \* the request sent last
    diag,           \* lines printed to standard error by the current call
    thrown,         \* message of the Error being thrown, Absent if none
    exitCode,       \* process exit code, Running while the process runs
    nPending,       \* polls of the current grant flow answered `pending`
    verdict,        \* what the classifier functions returned, when applied
    store,          \* the session store operation applied last, and its outcome
    reg,            \* login: the registration the broker opened
    search          \* drive search: the parallel path lookups and their merge

vars == <<client, cmd, autoEnabled, currentService, files, pc, phase, fn,
          attempt, session, waitSession, grantService, resp, data, grantRet, grantResp,
          deadline, lastStatus, clock, nDown, nGrant, nPolls, nSleeps,
          nFollow, lastReq, diag, thrown, exitCode, nPending, verdict, store, reg, search>>

----------------------------------------------------------------------------
(* Values *)

\* a JSON field that is missing (undefined)
Absent == "absent"

Truthy(v) == v # Absent /\ v # ""

RetryCodes == {"no_grant", "grant_expired", "single_use_exhausted"}

ErrorValues == RetryCodes \cup {Absent, "no_agent_session", "no_oauth_token", "rate_limited"}

UrlValues == {Absent, "url"}

FieldNames == {"error", "message", "connectUrl", "reauthorizeUrl", "elevateUrl"}

NoFields == [f \in FieldNames |-> Absent]

\* the `details` objects the broker may nest in an error payload; NoFields
\* stands for a payload without details (or with details that is no object)
DetailsValues ==
    {[NoFields EXCEPT !.error = e, !.elevateUrl = u] :
        e \in {Absent, "no_grant", "rate_limited"}, u \in UrlValues}

\* the parsed error payloads
Payloads ==
    {[error |-> e, message |-> m, connectUrl |-> c, reauthorizeUrl |-> r,
      elevateUrl |-> v, details |-> d] :
        e \in ErrorValues, m \in {Absent, "msg"}, c \in UrlValues,
        r \in UrlValues, v \in UrlValues, d \in DetailsValues}

EmptyPayload ==
    [error |-> Absent, message |-> Absent, connectUrl |-> Absent,
     reauthorizeUrl |-> Absent, elevateUrl |-> Absent, details |-> NoFields]

\* `data` of readErrorBody: null (or a falsy JSON value), or a parsed object
NullData == [truthy |-> FALSE, obj |-> EmptyPayload]

ObjData(p) == [truthy |-> TRUE, obj |-> p]

----------------------------------------------------------------------------
(* Session store *)

NoSession == Absent

\* a string: its text without the surrounding whitespace, and whether
\* whitespace leads and trails it
Str(l, t, r) == [lead |-> l, text |-> t, trail |-> r]

\* String.prototype.trim
trim(str) == str.text

\* a field of a parsed JSON object: undefined, a string or a number
NoField == [t |-> "undefined", s |-> Str(FALSE, "", FALSE)]

StrField(str) == [t |-> "string", s |-> str]

NumField == [t |-> "number", s |-> Str(FALSE, "7", FALSE)]

\* the value of a JSON text that is an object
JsonObject(a, b, c) ==
    [ok |-> TRUE, type |-> "object", agentSessionId |-> a, agentSession |-> b,
     session |-> c]

\* the value of a JSON text that is no object: null, a number, a string, ...
JsonScalar(ty) ==
    [ok |-> TRUE, type |-> ty, agentSessionId |-> NoField, agentSession |-> NoField,
     session |-> NoField]

JsonSyntaxError ==
    [ok |-> FALSE, type |-> "none", agentSessionId |-> NoField,
     agentSession |-> NoField, session |-> NoField]

\* the trimmed texts a session file or a session id may hold
PlainTexts == {"s1", "s2"}

JsonTexts ==
    {"123", "null", "\"s1\"", "{}",
     "{\"agentSessionId\":\"s3\"}",
     "{\"agentSessionId\":\" s3 \"}",
     "{\"agentSessionId\":\" \"}",
     "{\"agentSessionId\":7}",
     "{\"agentSessionId\":\"\",\"agentSession\":\"s4\"}",
     "{\"session\":\"s5\"}"}

Texts == {""} \cup PlainTexts \cup JsonTexts

\* JSON.parse on these texts
jsonParse(t) ==
    CASE t = "123" -> JsonScalar("number")
      [] t = "null" -> JsonScalar("null")
      [] t = "\"s1\"" -> JsonScalar("string")
      [] t = "{}" -> JsonObject(NoField, NoField, NoField)
      [] t = "{\"agentSessionId\":\"s3\"}" ->
            JsonObject(StrField(Str(FALSE, "s3", FALSE)), NoField, NoField)
      [] t = "{\"agentSessionId\":\" s3 \"}" ->
            JsonObject(StrField(Str(TRUE, "s3", TRUE)), NoField, NoField)
      [] t = "{\"agentSessionId\":\" \"}" ->
            JsonObject(StrField(Str(TRUE, "", FALSE)), NoField, NoField)
      [] t = "{\"agentSessionId\":7}" -> JsonObject(NumField, NoField, NoField)
      [] t = "{\"agentSessionId\":\"\",\"agentSession\":\"s4\"}" ->
            JsonObject(StrField(Str(FALSE, "", FALSE)),
                       StrField(Str(FALSE, "s4", FALSE)), NoField)
      [] t = "{\"session\":\"s5\"}" ->
            JsonObject(NoField, NoField, StrField(Str(FALSE, "s5", FALSE)))
      [] OTHER -> JsonSyntaxError

\* truthiness of a field: a string that is not "", a number that is not 0
fieldTruthy(f) ==
    \/ f.t = "number"
    \/ f.t = "string" /\ (f.s.lead \/ f.s.trail \/ f.s.text # "")

\* a || b || c
orElse(a, b, c) == IF fieldTruthy(a) THEN a ELSE IF fieldTruthy(b) THEN b ELSE c

\* a candidate file: missing, present but failing to be read, or its text
\* { mode: 384 }, that is 0o600
OWNER_ONLY == 384

\* 0o644, the mode of a file made by another tool under the usual umask
WIDER_MODE == 420

\* the permission bits of a file that is not there
NoMode == 0

Missing == [kind |-> "missing", content |-> Str(FALSE, "", FALSE), mode |-> NoMode]

Unreadable == [kind |-> "unreadable", content |-> Str(FALSE, "", FALSE), mode |-> NoMode]

File(str) == [kind |-> "file", content |-> str, mode |-> OWNER_ONLY]

\* the same file with permission bits m
WithMode(f, m) == [f EXCEPT !.mode = m]

\* the file saveAgentSession leaves: `${text}\n`
RawFile(t) == File(Str(FALSE, t, TRUE))

\* the body of the loop of getAgentSession for one file that was read:
\* what it returns, or "next" when the loop goes on
readCandidate(f) ==
    LET sessionRaw == trim(f.content)
        parsed == jsonParse(sessionRaw)
        normalized == orElse(parsed.agentSessionId, parsed.agentSession, parsed.session)
    IN  IF sessionRaw = "" THEN [out |-> "next", value |-> NoSession]
        ELSE IF ~parsed.ok THEN [out |-> "return", value |-> sessionRaw]
        \* parsed.agentSessionId of null throws inside the inner try
        ELSE IF parsed.type = "null" THEN [out |-> "return", value |-> sessionRaw]
        \* normalized?.trim() of a number throws inside the inner try
        ELSE IF normalized.t = "number" THEN [out |-> "return", value |-> sessionRaw]
        ELSE IF normalized.t = "string" /\ trim(normalized.s) # ""
        THEN [out |-> "return", value |-> trim(normalized.s)]
        ELSE [out |-> "next", value |-> NoSession]

\* getAgentSession: the candidates are tried in order; one that is missing,
\* empty or JSON without a session id lets the loop go on, a read error
\* anywhere ends the scan with null
RECURSIVE scanSessionFiles(_)
scanSessionFiles(fs) ==
    IF fs = <<>> THEN NoSession
    ELSE LET f == Head(fs) IN
         CASE f.kind = "missing" -> scanSessionFiles(Tail(fs))
           [] f.kind = "unreadable" -> NoSession
           [] readCandidate(f).out = "return" -> readCandidate(f).value
           [] OTHER -> scanSessionFiles(Tail(fs))

getAgentSession(fs) == scanSessionFiles(fs)

\* saveAgentSession(id): writeFile(SHARED_AGENT_SESSION_FILE, `${id.trim()}\n`)
\* the mode option of writeFile is used by open(2) only when it creates the
\* file; a file that is there keeps its permission bits
modeAfterWrite(f, m) == IF f.kind = "missing" THEN m ELSE f.mode

saveAgentSession(fs, id) ==
    [fs EXCEPT ![1] = WithMode(RawFile(trim(id)), modeAfterWrite(fs[1], OWNER_ONLY))]

\* clearAgentSession when unlink throws at candidate `failAt` (0: nowhere):
\* the catch around the loop ends it there
clearAgentSession(fs, failAt) ==
    [i \in 1..Len(fs) |->
        IF fs[i].kind # "missing" /\ (failAt = 0 \/ i < failAt) THEN Missing ELSE fs[i]]

\* the candidate session files of the store checks: the primary file and the
\* legacy files after it
NumCandidates == 2

\* no registration opened yet
NoReg == [initId |-> NoField, expiresIn |-> [t |-> "undefined", n |-> 0], lastId |-> NoField]

\* no store operation applied yet
NoStore ==
    [op |-> "none", after |-> "none", id |-> Str(FALSE, "", FALSE),
     ret |-> NoSession, failAt |-> 0, before |-> <<>>]

----------------------------------------------------------------------------
(* Auth error classifier *)

\* notion-query.js normalizeAuthError: { ...(data || {}), ...details }
normalizeAuthError(p) ==
    [f \in FieldNames |->
        IF p.details[f] # Absent THEN p.details[f] ELSE p[f]]

\* the payload whose fields the client's classifier reads
effectivePayload(cl, p) ==
    IF cl = "notion" THEN normalizeAuthError(p)
    ELSE [f \in FieldNames |-> p[f]]

isAutoRequestError_NoDetails(cl, d) ==
    d.truthy /\ d.obj.error \in RetryCodes

\* isAutoRequestError(data); data is null, or a parsed payload
isAutoRequestError(cl, d) ==
    /\ d.truthy
    /\ Truthy(effectivePayload(cl, d.obj).error)
    /\ effectivePayload(cl, d.obj).error \in RetryCodes

describeAuthError_ElevateFirst(cl, p, service) ==
    LET e == effectivePayload(cl, p) IN
    IF Truthy(e.elevateUrl) THEN
        [kind |-> "ElevationRequired",
         lines |-> <<(IF cl = "notion" THEN "Additional authorization required."
                      ELSE IF Truthy(e.error) THEN e.error
                      ELSE "Access not authorised."),
                     "", "To grant access, visit:", e.elevateUrl>>]
    ELSE IF e.error = "no_agent_session" THEN
        [kind |-> "NoSession",
         lines |-> <<"No agent session. Run login.">>]
    ELSE IF (IF Truthy(e.error) THEN e.error ELSE "") \in RetryCodes THEN
        [kind |-> "NoGrant",
         lines |-> <<"No active grant for", (IF cl = "notion" THEN "notion" ELSE service),
                     "Request access by running:", "request">>]
    ELSE IF e.error = "no_oauth_token" /\ Truthy(e.connectUrl) THEN
        [kind |-> "AccountNotLinked",
         lines |-> <<"Account not linked.", "", "To connect, visit:", e.connectUrl>>]
    ELSE IF Truthy(e.reauthorizeUrl) THEN
        [kind |-> "ScopeOrTokenExpired",
         lines |-> <<"Access token expired or missing scopes.", "",
                     "Re-authorise at:", e.reauthorizeUrl>>]
    ELSE IF cl = "office" THEN
        [kind |-> "Generic",
         lines |-> <<IF Truthy(e.message) THEN e.message
                     ELSE IF Truthy(e.error) THEN e.error
                     ELSE "Authentication failed">>]
    ELSE
        [kind |-> "Generic",
         lines |-> IF Truthy(e.message) THEN <<e.message>>
                   ELSE IF Truthy(e.error) THEN <<e.error>>
                   ELSE <<>>]

\* describeAuthError(data, service): the branch taken and the lines it
\* prints to standard error
describeAuthError(cl, p, service) ==
    LET e == effectivePayload(cl, p) IN
    IF e.error = "no_agent_session" THEN
        [kind |-> "NoSession",
         lines |-> <<"No agent session. Run login.">>]
    ELSE IF (IF Truthy(e.error) THEN e.error ELSE "") \in RetryCodes THEN
        [kind |-> "NoGrant",
         lines |-> <<"No active grant for", (IF cl = "notion" THEN "notion" ELSE service),
                     "Request access by running:", "request">>]
    ELSE IF e.error = "no_oauth_token" /\ Truthy(e.connectUrl) THEN
        [kind |-> "AccountNotLinked",
         lines |-> <<"Account not linked.", "", "To connect, visit:", e.connectUrl>>]
    ELSE IF Truthy(e.reauthorizeUrl) THEN
        [kind |-> "ScopeOrTokenExpired",
         lines |-> <<"Access token expired or missing scopes.", "",
                     "Re-authorise at:", e.reauthorizeUrl>>]
    ELSE IF Truthy(e.elevateUrl) THEN
        [kind |-> "ElevationRequired",
         lines |-> <<(IF cl = "notion" THEN "Additional authorization required."
                      ELSE IF Truthy(e.error) THEN e.error
                      ELSE "Access not authorised."),
                     "", "To grant access, visit:", e.elevateUrl>>]
    ELSE IF cl = "office" THEN
        [kind |-> "Generic",
         lines |-> <<IF Truthy(e.message) THEN e.message
                     ELSE IF Truthy(e.error) THEN e.error
                     ELSE "Authentication failed">>]
    ELSE
        [kind |-> "Generic",
         lines |-> IF Truthy(e.message) THEN <<e.message>>
                   ELSE IF Truthy(e.error) THEN <<e.error>>
                   ELSE <<>>]

NoVerdict == [retryable |-> FALSE, kind |-> "none", lines |-> <<>>]

\* readErrorBody(response): { data, text }
readErrorBody(body) ==
    [data |-> IF body.kind = "object" THEN ObjData(body.obj) ELSE NullData,
     text |-> body.kind # "empty"]

----------------------------------------------------------------------------
(* Constants of the code and bounds of the model *)

AUTO_REQUEST_POLL_MS == 2000

\* waitForGrantApproval: Date.now() + 5 * 60 * 1e3
DEFAULT_WAIT_MS == 300000

\* polls of one grant flow the model follows
MaxPolls == 3

\* time a poll of the broker may take (fetch sets no timeout of its own)
Latencies == {0, 1500, 300000}

Running == 0 - 1

----------------------------------------------------------------------------
(* Responses *)

BodyEmpty == [kind |-> "empty", obj |-> EmptyPayload]

BodyText == [kind |-> "text", obj |-> EmptyPayload]

\* a body that parses to a falsy JSON value (null, false, 0, "")
BodyFalsy == [kind |-> "falsy", obj |-> EmptyPayload]

BodyObj(p) == [kind |-> "object", obj |-> p]

\* a Notion body { object: "error", ... } sent with a success status
BodyNotionError == [kind |-> "notionError", obj |-> EmptyPayload]

WithError(e) == [EmptyPayload EXCEPT !.error = e]

\* the error payloads the proxy answers with in the state machine
SamplePayloads ==
    {EmptyPayload}
    \cup {WithError(e) : e \in RetryCodes \cup {"no_agent_session"}}
    \cup {[WithError("no_grant") EXCEPT !.elevateUrl = "url"],
          [WithError("rate_limited") EXCEPT !.details = [NoFields EXCEPT !.error = "no_grant"]],
          [WithError("no_grant") EXCEPT !.details = [NoFields EXCEPT !.error = "rate_limited"]]}

ErrorBodies == {BodyEmpty, BodyText, BodyFalsy} \cup {BodyObj(p) : p \in SamplePayloads}

AuthStatuses == {401, 403, 429}

OkStatuses == {200, 204}

RedirectStatuses == {301, 302}

\* notion-query.js calls fetch with the default redirect mode, which never
\* hands a 3xx to the caller
Statuses(cl) ==
    OkStatuses \cup AuthStatuses \cup {500}
    \cup (IF cl = "office" THEN RedirectStatuses ELSE {})

Responses(cl) ==
    {[status |-> st, body |-> b, location |-> l] :
        st \in Statuses(cl), b \in ErrorBodies \cup {BodyNotionError}, l \in BOOLEAN}

\* answers the proxy can give: a success carries no error body, only a
\* redirect carries a Location header
DownstreamAnswers(cl) ==
    {r \in Responses(cl) :
        /\ (r.location => r.status \in RedirectStatuses)
        /\ (r.status \in OkStatuses =>
                r.body \in {BodyEmpty} \cup (IF cl = "notion" THEN {BodyNotionError} ELSE {}))
        /\ (r.status \notin OkStatuses => r.body # BodyNotionError)
        /\ (r.status \in RedirectStatuses => r.body = BodyEmpty)}

NoResp == [status |-> 0, body |-> BodyEmpty, location |-> FALSE]

\* one path lookup of drive search: the apiRequest("/$batch") of its chunk
NoBatch ==
    [pc |-> "idle", attempt |-> 0, nDown |-> 0, nGrant |-> 0, nPolls |-> 0,
     answer |-> NoResp, paths |-> {}]

\* no drive search running
NoSearch == [batches |-> <<>>, pathMap |-> {}, first |-> 0, peak |-> 0]

isOk(r) == r.status \in OkStatuses

\* expiresAt of the grant-request response: missing, a string Date cannot
\* parse, or a time in ms relative to the clock
NoExpiry == [given |-> FALSE, isNaN |-> FALSE, ms |-> 0]

ExpiresAtValues ==
    {NoExpiry, [given |-> TRUE, isNaN |-> TRUE, ms |-> 0]}
    \cup {[given |-> TRUE, isNaN |-> FALSE, ms |-> t] : t \in {0 - 1000, 2000, 5000}}

\* where a URL points: under the base URL of the broker, or elsewhere
Origins == {"broker", "outside"}

\* the answer to a grant request; pollUrl is the origin of its pollUrl
NoGrantResp ==
    [st |-> "none", autoApproved |-> FALSE, expiresAt |-> NoExpiry, pollUrl |-> "broker"]

GrantAnswers ==
    {[st |-> "error", autoApproved |-> FALSE, expiresAt |-> NoExpiry, pollUrl |-> "broker"],
     [st |-> "ok", autoApproved |-> TRUE, expiresAt |-> NoExpiry, pollUrl |-> "broker"]}
    \cup {[st |-> "ok", autoApproved |-> FALSE, expiresAt |-> e, pollUrl |-> "broker"] :
            e \in ExpiresAtValues}
    \cup {[st |-> "ok", autoApproved |-> FALSE, expiresAt |-> NoExpiry, pollUrl |-> u] :
            u \in Origins}

\* where fetch sends a request of kind k: the proxy, the grant request and
\* the registration go to AUTH_SERVICE_URL, a poll to the pollUrl the answer
\* gave, a follow-up to the location of the redirect
destination(k, gr) ==
    CASE k \in {"proxy", "grant", "init"} -> "broker"
      [] k = "poll" -> gr.pollUrl
      [] OTHER -> "outside"

TerminalStatuses == {"approved", "denied", "expired"}

PollStatuses == TerminalStatuses \cup {"pending", "oauth_pending", "queued"}

PollBody(st, m) == [kind |-> "poll", st |-> st, message |-> m]

PollAnswers ==
    {[status |-> 200, body |-> PollBody(st, m), location |-> FALSE] :
        st \in PollStatuses, m \in {Absent, "msg"}}
    \cup {[status |-> 500, body |-> b, location |-> FALSE] :
            b \in {BodyEmpty, BodyObj(EmptyPayload), BodyObj(WithError("no_agent_session"))}}

NoDeadline == [isNaN |-> FALSE, ms |-> 0]

\* new Date(expiresAt).getTime(), or Date.now() + 5 min when expiresAt is falsy
computeDeadline(expiresAt, now) ==
    IF expiresAt.given THEN [isNaN |-> expiresAt.isNaN, ms |-> expiresAt.ms]
    ELSE [isNaN |-> FALSE, ms |-> now + DEFAULT_WAIT_MS]

beforeDeadline_Inclusive(now, d) == ~d.isNaN /\ now <= d.ms

\* Date.now() < deadline (false for NaN)
beforeDeadline(now, d) == ~d.isNaN /\ now < d.ms

----------------------------------------------------------------------------
(* The invocation *)

Commands(cl) ==
    IF cl = "office"
    THEN {"list", "search", "download", "content", "convert", "convertForce",
          "unshare", "send", "sendLookup", "reply", "events", "people", "request"}
    ELSE {"query", "update", "request"}

InlineCommands == {"unshare", "send", "reply"}

\* the candidate files: the shared file first, then the legacy files
SessionFileStates ==
    {<<RawFile("s1"), Missing>>,
     <<Missing, RawFile("s2")>>,
     <<RawFile(""), Missing>>,
     <<Missing, Missing>>}

\* SCOPES[service], and NOTION_SCOPES of notion-query.js
SCOPES(svc) ==
    CASE svc = "drive" -> {"Files.Read", "Files.ReadWrite.All"}
      [] svc = "mail" -> {"Mail.Read", "Mail.Send", "People.Read"}
      [] svc = "cal" -> {"Calendars.Read"}
      [] OTHER -> {"read", "write"}

\* GRANT_DURATION[service], and NOTION_GRANT_DURATION of notion-query.js
GRANT_DURATION(svc) ==
    CASE svc = "drive" -> "30m"
      [] svc \in {"mail", "cal"} -> "1h"
      [] OTHER -> "1h"

NoBody == [service |-> Absent, scopes |-> {}, duration |-> Absent]

\* the body requestGrant posts to /api/auth-request
grantBody(svc) ==
    [service |-> IF svc = "notion" THEN "notion" ELSE "msgraph",
     scopes |-> SCOPES(svc), duration |-> GRANT_DURATION(svc)]

\* a request: its kind, its X-Agent-Session header, the service of a grant
\* request with the body made for it, the time it was sent and the time its
\* answer took
Request(k, s, v, t) ==
    [kind |-> k, session |-> s, svc |-> v, at |-> t, took |-> 0,
     body |-> IF k = "grant" THEN grantBody(v) ELSE NoBody]

NoReq == Request("none", Absent, Absent, 0)

TimeoutMessage == "Timed out waiting for authorization approval."

OAuthNotice == "OAuth connection required. Complete it in your browser..."

\* the lines that tell the operator to log in
LoginHint(cl, f) ==
    IF cl = "notion" THEN "No agent session. Run 'node notion-query.js login' first."
    ELSE IF f \in {"apiRequest", "fetchGraphContent"}
         THEN "Not registered. Run 'login' to create an agent session."
         ELSE "Not registered. Run './office-cli.js login' first."

LoginHints ==
    {LoginHint(cl, f) : cl \in {"office", "notion"}, f \in {"apiRequest", "inline"}}

\* main: currentService = "drive" | "mail" before the command runs
serviceOf(c, cur) ==
    IF c \in {"list", "search", "download", "content", "convert", "convertForce", "unshare"}
    THEN "drive"
    ELSE IF c \in {"send", "sendLookup", "reply"} THEN "mail"
    ELSE IF c = "events" THEN "cal"
    ELSE cur

entryPc(c) ==
    IF c \in InlineCommands THEN "inline_call"
    ELSE IF c = "request" THEN "grant_call"
    ELSE "call"

entryPhase(c) ==
    CASE c \in {"list", "query", "events", "people"} -> "single"
      [] c = "search" -> "search"
      [] c = "update" -> "page"
      [] c \in {"download", "content", "convertForce"} -> "info"
      [] c = "convert" -> "cacheList"
      [] c = "sendLookup" -> "lookup"
      [] c \in InlineCommands -> "inline"
      [] OTHER -> "request"

entryFn(cl, c) ==
    IF c \in InlineCommands THEN "inline"
    ELSE IF c = "request" THEN "requestGrant"
    ELSE IF cl = "notion" THEN "notionApi"
    ELSE "apiRequest"

Init ==
    /\ client \in {"office", "notion"}
    /\ cmd \in Commands(client)
    /\ autoEnabled \in BOOLEAN
    /\ files \in SessionFileStates
    /\ currentService = "drive"
    /\ pc = "main"
    /\ phase = "none"
    /\ fn = "none"
    /\ attempt = 0
    /\ session = NoSession
    /\ waitSession = NoSession
    /\ grantService = Absent
    /\ resp = NoResp
    /\ data = NullData
    /\ grantRet = "none"
    /\ grantResp = NoGrantResp
    /\ deadline = NoDeadline
    /\ lastStatus = Absent
    /\ clock = 0
    /\ nDown = 0
    /\ nGrant = 0
    /\ nPolls = 0
    /\ nSleeps = 0
    /\ nFollow = 0
    /\ lastReq = NoReq
    /\ diag = <<>>
    /\ thrown = Absent
    /\ exitCode = Running
    /\ nPending = 0
    /\ verdict = NoVerdict
    /\ store = NoStore
    /\ reg = NoReg
    /\ search = NoSearch

\* a function of the command starts: its locals and the per-call books are fresh
Enter(p, ph, f, gr) ==
    /\ pc' = p
    /\ phase' = ph
    /\ fn' = f
    /\ grantRet' = gr
    /\ attempt' = 0
    /\ session' = NoSession
    /\ waitSession' = NoSession
    /\ resp' = NoResp
    /\ data' = NullData
    /\ grantResp' = NoGrantResp
    /\ deadline' = NoDeadline
    /\ lastStatus' = Absent
    /\ clock' = 0
    /\ nDown' = 0
    /\ nGrant' = 0
    /\ nPolls' = 0
    /\ nSleeps' = 0
    /\ nFollow' = 0
    /\ lastReq' = NoReq
    /\ diag' = <<>>
    /\ thrown' = Absent
    /\ nPending' = 0
    /\ UNCHANGED <<client, cmd, autoEnabled, files, exitCode, verdict, store, reg, search>>

\* main(): the switch on the command
Main ==
    /\ pc = "main"
    /\ \E svc \in (IF client = "office" THEN {"drive", "mail", "cal"} ELSE {"notion"}) :
        /\ currentService' = serviceOf(cmd, currentService)
        /\ grantService' = IF cmd = "request" THEN svc ELSE Absent
        /\ Enter(entryPc(cmd), entryPhase(cmd), entryFn(client, cmd),
                 IF cmd = "request" THEN "request" ELSE "none")

----------------------------------------------------------------------------
(* Resilient request pipeline: apiRequest, fetchGraphContent, notionApi *)

config == <<client, cmd, autoEnabled, files, currentService, verdict, store, reg, search>>

\* process.exit(code) after printing lines
Exit(code, lines) ==
    /\ pc' = "done"
    /\ exitCode' = code
    /\ diag' = diag \o lines

\* throw new Error(msg)
Throw(msg) ==
    /\ pc' = "throwing"
    /\ thrown' = msg

sessionMissing_Never(s) == FALSE

\* if (!agentSession)
sessionMissing(s) == ~Truthy(s)

retryGuard_AnyAttempt(a, enabled, retryable) == a <= 1 /\ enabled /\ retryable

retryGuard_IgnoreSwitch(a, enabled, retryable) == a = 0 /\ retryable

\* attempt === 0 && AUTO_REQUEST_ENABLED && isAutoRequestError(data)
retryGuard(a, enabled, retryable) == a = 0 /\ enabled /\ retryable

\* the head of the function: read the session, then send the request
sessionForAttempt_Reuse(a, old, fs) == IF a = 0 THEN getAgentSession(fs) ELSE old

\* const agentSession = await getAgentSession(), the first statement of the
\* function on every attempt
sessionForAttempt(a, old, fs) == getAgentSession(fs)

Call ==
    /\ pc = "call"
    /\ LET s == sessionForAttempt(attempt, session, files) IN
        IF sessionMissing(s)
        THEN /\ Exit(1, <<LoginHint(client, fn)>>)
             /\ UNCHANGED <<session, nDown, lastReq>>
        ELSE /\ session' = s
             /\ nDown' = nDown + 1
             /\ lastReq' = Request("proxy", s, Absent, clock)
             /\ pc' = "await"
             /\ UNCHANGED <<exitCode, diag>>
    /\ UNCHANGED <<config, nPending, phase, fn, attempt, waitSession, grantService, resp,
                   data, grantRet, grantResp, deadline, lastStatus, clock,
                   nGrant, nPolls, nSleeps, nFollow, thrown>>

\* the proxy answers
Await ==
    /\ pc = "await"
    /\ \E r \in DownstreamAnswers(client) : resp' = r
    /\ pc' = "handle"
    /\ UNCHANGED <<config, nPending, phase, fn, attempt, session, waitSession, grantService,
                   data, grantRet, grantResp, deadline, lastStatus, clock, nDown,
                   nGrant, nPolls, nSleeps, nFollow, lastReq, diag, thrown, exitCode>>

\* notionApi: a failure that is an auth error by its body is described
notionAuthBody(d) ==
    /\ d.truthy
    /\ LET e == normalizeAuthError(d.obj) IN
        \/ e.error = "no_agent_session"
        \/ e.error = "no_oauth_token"
        \/ Truthy(e.reauthorizeUrl)
        \/ Truthy(e.elevateUrl)

\* the rest of the function, from the status check to the return
Handle ==
    /\ pc = "handle"
    /\ LET eb == readErrorBody(resp.body) IN
        IF resp.status \in AuthStatuses THEN
            IF retryGuard(attempt, autoEnabled, isAutoRequestError(client, eb.data))
            THEN /\ pc' = "grant_call"
                 /\ grantRet' = "pipeline"
                 /\ UNCHANGED <<resp, diag, thrown, exitCode>>
            ELSE IF eb.data.truthy
            THEN /\ Exit(1, describeAuthError(client, eb.data.obj, currentService).lines)
                 /\ UNCHANGED <<grantRet, resp, thrown>>
            ELSE /\ Throw(IF eb.text THEN "response text" ELSE "Authentication failed (status)")
                 /\ UNCHANGED <<grantRet, resp, diag, exitCode>>
        ELSE IF fn = "fetchGraphContent" THEN
            /\ pc' = "ret"
            /\ UNCHANGED <<grantRet, resp, diag, thrown, exitCode>>
        ELSE IF ~isOk(resp) THEN
            IF fn = "notionApi" /\ notionAuthBody(eb.data)
            THEN /\ Exit(1, describeAuthError(client, eb.data.obj, currentService).lines)
                 /\ UNCHANGED <<grantRet, resp, thrown>>
            ELSE /\ Throw(IF eb.data.truthy /\ (Truthy(eb.data.obj.error) \/ Truthy(eb.data.obj.message))
                          THEN "message or error of the body"
                          ELSE IF eb.text THEN "response text" ELSE "API error (status)")
                 /\ UNCHANGED <<grantRet, resp, diag, exitCode>>
        ELSE IF resp.body = BodyNotionError THEN
            /\ Throw("Error: Notion proxy error")
            /\ UNCHANGED <<grantRet, resp, diag, exitCode>>
        ELSE
            /\ pc' = "ret"
            /\ UNCHANGED <<grantRet, resp, diag, thrown, exitCode>>
    /\ UNCHANGED <<config, nPending, phase, fn, attempt, session, waitSession, grantService,
                   data, grantResp, deadline, lastStatus, clock, nDown, nGrant,
                   nPolls, nSleeps, nFollow, lastReq>>

----------------------------------------------------------------------------
(* Grant request / poll protocol: requestGrant, ensureGrant, waitForGrantApproval *)

\* requestGrant(service), called by ensureGrant with currentService or by the
\* request command with its argument
GrantCall ==
    /\ pc = "grant_call"
    /\ IF grantRet # "request" /\ ~autoEnabled
       THEN /\ pc' = "granted"
            /\ UNCHANGED <<grantService, nGrant, lastReq, diag, exitCode>>
       ELSE LET s == getAgentSession(files)
                svc == IF grantRet = "request" THEN grantService
                       ELSE IF client = "notion" THEN "notion" ELSE currentService
            IN  IF sessionMissing(s)
                THEN /\ Exit(1, <<LoginHint(client, "requestGrant")>>)
                     /\ UNCHANGED <<grantService, nGrant, lastReq>>
                ELSE /\ grantService' = svc
                     /\ nGrant' = nGrant + 1
                     /\ lastReq' = Request("grant", s, svc, clock)
                     /\ pc' = "grant_await"
                     /\ UNCHANGED <<diag, exitCode>>
    /\ resp' = NoResp
    /\ UNCHANGED <<config, nPending, phase, fn, attempt, session, waitSession, data,
                   grantRet, grantResp, deadline, lastStatus, clock, nDown,
                   nPolls, nSleeps, nFollow, thrown>>

\* the broker answers the grant request
GrantAwait ==
    /\ pc = "grant_await"
    /\ \E a \in GrantAnswers : grantResp' = a
    /\ pc' = "grant_handle"
    /\ UNCHANGED <<config, nPending, phase, fn, attempt, session, waitSession, grantService,
                   resp, data, grantRet, deadline, lastStatus, clock, nDown, nGrant,
                   nPolls, nSleeps, nFollow, lastReq, diag, thrown, exitCode>>

requestWaits_Always(cl, gr) == TRUE

\* office-cli.js `request` returns once the request is created
requestWaits(cl, gr) == ~(cl = "office" /\ gr = "request")

skipsPollOnAuto_Never(a) == FALSE

\* if (request.autoApproved) return
skipsPollOnAuto(a) == a.autoApproved

\* the caller of requestGrant reads the answer
GrantHandle ==
    /\ pc = "grant_handle"
    /\ IF grantResp.st = "error"
       THEN /\ Throw("message of the failed auth request")
            /\ UNCHANGED <<diag, exitCode>>
       ELSE IF skipsPollOnAuto(grantResp)
       THEN /\ pc' = "granted"
            /\ diag' = Append(diag, "Access granted automatically (within policy).")
            /\ UNCHANGED <<thrown, exitCode>>
       ELSE IF ~requestWaits(client, grantRet)
       THEN /\ Exit(0, <<"Authorisation request created.", "Approve at: approveUrl",
                         "Once approved, try your command again.">>)
            /\ UNCHANGED thrown
       ELSE /\ pc' = "wait_call"
            /\ diag' = diag \o <<"Authorization required", "Approve at: approveUrl",
                                 "Waiting for approval...">>
            /\ UNCHANGED <<thrown, exitCode>>
    /\ UNCHANGED <<config, nPending, phase, fn, attempt, session, waitSession, grantService,
                   resp, data, grantRet, grantResp, deadline, lastStatus, clock,
                   nDown, nGrant, nPolls, nSleeps, nFollow, lastReq>>

\* waitForGrantApproval: the session and the deadline
WaitCall ==
    /\ pc = "wait_call"
    /\ LET s == getAgentSession(files) IN
        IF sessionMissing(s)
        THEN /\ Exit(1, <<LoginHint(client, "waitForGrantApproval")>>)
             /\ UNCHANGED <<waitSession, deadline, lastStatus>>
        ELSE /\ waitSession' = s
             /\ deadline' = computeDeadline(grantResp.expiresAt, clock)
             /\ lastStatus' = Absent
             /\ pc' = "wait_check"
             /\ UNCHANGED <<diag, exitCode>>
    /\ UNCHANGED <<config, nPending, phase, fn, attempt, session, grantService, resp, data,
                   grantRet, grantResp, clock, nDown, nGrant, nPolls, nSleeps,
                   nFollow, lastReq, thrown>>

\* while (Date.now() < deadline) fetch(pollUrl) ... ; throw timed out
WaitCheck ==
    /\ pc = "wait_check"
    /\ IF beforeDeadline(clock, deadline)
       THEN /\ nPolls < MaxPolls
            /\ nPolls' = nPolls + 1
            /\ lastReq' = Request("poll", waitSession, Absent, clock)
            /\ pc' = "poll_await"
            /\ UNCHANGED thrown
       ELSE /\ Throw(TimeoutMessage)
            /\ UNCHANGED <<nPolls, lastReq>>
    /\ UNCHANGED <<config, nPending, phase, fn, attempt, session, waitSession, grantService,
                   resp, data, grantRet, grantResp, deadline, lastStatus, clock,
                   nDown, nGrant, nSleeps, nFollow, diag, exitCode>>

\* the broker answers the poll, after some time
PollAwait ==
    /\ pc = "poll_await"
    /\ \E a \in PollAnswers, l \in Latencies :
        /\ resp' = a
        /\ clock' = clock + l
        /\ lastReq' = [lastReq EXCEPT !.took = l]
        /\ nPending' = IF isOk(a) /\ a.body.st = "pending" THEN nPending + 1 ELSE nPending
    /\ pc' = "poll_handle"
    /\ UNCHANGED <<config, phase, fn, attempt, session, waitSession, grantService,
                   data, grantRet, grantResp, deadline, lastStatus, nDown, nGrant,
                   nPolls, nSleeps, nFollow, diag, thrown, exitCode>>

pollOutcome_ExpiredGoesOn(st) ==
    IF st = "approved" THEN "return" ELSE IF st = "denied" THEN "throw" ELSE "sleep"

\* what the loop body does with the status it read
pollOutcome(st) ==
    IF st = "approved" THEN "return"
    ELSE IF st \in {"denied", "expired"} THEN "throw"
    ELSE "sleep"

pollErrorMessage(st, m) ==
    IF Truthy(m) THEN m
    ELSE IF st = "denied" THEN "Authorization denied."
    ELSE "Authorization request expired."

\* the loop body after the fetch
PollHandle ==
    /\ pc = "poll_handle"
    /\ IF ~isOk(resp)
       THEN LET eb == readErrorBody(resp.body) IN
            IF eb.data.truthy
            THEN /\ Exit(1, describeAuthError(client, eb.data.obj, "msgraph").lines)
                 /\ UNCHANGED <<lastStatus, thrown>>
            ELSE /\ Throw("Auth request poll failed (status)")
                 /\ UNCHANGED <<lastStatus, diag, exitCode>>
       ELSE LET st == resp.body.st IN
            /\ lastStatus' = st
            /\ diag' = IF st # lastStatus /\ st = "oauth_pending"
                       THEN Append(diag, OAuthNotice) ELSE diag
            /\ IF pollOutcome(st) = "return"
               THEN pc' = "granted" /\ UNCHANGED thrown
               ELSE IF pollOutcome(st) = "throw"
               THEN Throw(pollErrorMessage(st, resp.body.message))
               ELSE pc' = "sleep" /\ UNCHANGED thrown
            /\ UNCHANGED exitCode
    /\ UNCHANGED <<config, nPending, phase, fn, attempt, session, waitSession, grantService,
                   resp, data, grantRet, grantResp, deadline, clock, nDown, nGrant,
                   nPolls, nSleeps, nFollow, lastReq>>

sleepMs_None == AUTO_REQUEST_POLL_MS - AUTO_REQUEST_POLL_MS

sleepMs_Twice == AUTO_REQUEST_POLL_MS + AUTO_REQUEST_POLL_MS

\* await sleep(AUTO_REQUEST_POLL_MS)
sleepMs == AUTO_REQUEST_POLL_MS

Sleep ==
    /\ pc = "sleep"
    /\ clock' = clock + sleepMs
    /\ nSleeps' = nSleeps + 1
    /\ pc' = "wait_check"
    /\ UNCHANGED <<config, nPending, phase, fn, attempt, session, waitSession, grantService,
                   resp, data, grantRet, grantResp, deadline, lastStatus, nDown,
                   nGrant, nPolls, nFollow, lastReq, diag, thrown, exitCode>>

\* apiRequest(endpoint, options, attempt + 1)
nextAttempt(a) == a + 1

\* the grant flow returned to its caller
sessionAfterGrant_Saves(fs, gr) == saveAgentSession(fs, Str(FALSE, "s3", FALSE))

\* the session files when ensureGrant returns or the request command ends:
\* neither function, nor requestGrant and waitForGrantApproval under them,
\* calls saveAgentSession or clearAgentSession
sessionAfterGrant(fs, gr) == fs

GrantReturn ==
    /\ pc = "granted"
    /\ files' = sessionAfterGrant(files, grantResp)
    /\ IF grantRet = "pipeline"
       THEN /\ attempt' = nextAttempt(attempt)
            /\ pc' = "call"
            /\ diag' = IF grantResp.autoApproved \/ ~autoEnabled THEN diag
                       ELSE Append(diag, "Authorization granted. Retrying request...")
            /\ UNCHANGED <<nDown, lastReq, exitCode>>
       ELSE IF grantRet = "inline"
       THEN /\ nDown' = nDown + 1
            /\ lastReq' = Request("proxy", session, Absent, clock)
            /\ pc' = "inline_retry_await"
            /\ diag' = IF grantResp.autoApproved \/ ~autoEnabled THEN diag
                       ELSE Append(diag, "Authorization granted. Retrying request...")
            /\ UNCHANGED <<attempt, exitCode>>
       ELSE /\ Exit(0, IF grantResp.autoApproved THEN <<>> ELSE <<"Access granted.">>)
            /\ UNCHANGED <<attempt, nDown, lastReq>>
    /\ UNCHANGED <<client, cmd, autoEnabled, currentService, verdict, store, reg, search,
                   nPending, phase, fn, session, waitSession, grantService, resp,
                   data, grantRet, grantResp, deadline, lastStatus, clock, nGrant,
                   nPolls, nSleeps, nFollow, thrown>>

----------------------------------------------------------------------------
(* The inline paths of office-cli.js: driveUnshare, mailSend, mailReply *)

\* these call fetch with the default redirect mode
InlineAnswers == {r \in DownstreamAnswers("office") : r.status \notin RedirectStatuses}

inlineService(c) == IF c = "unshare" THEN "drive" ELSE "mail"

InlineCall ==
    /\ pc = "inline_call"
    /\ LET s == getAgentSession(files) IN
        IF sessionMissing(s)
        THEN /\ Exit(1, <<LoginHint(client, "inline")>>)
             /\ UNCHANGED <<session, nDown, lastReq>>
        ELSE /\ session' = s
             /\ nDown' = nDown + 1
             /\ lastReq' = Request("proxy", s, Absent, clock)
             /\ pc' = "inline_await"
             /\ UNCHANGED <<exitCode, diag>>
    /\ UNCHANGED <<config, nPending, phase, fn, attempt, waitSession, grantService, resp,
                   data, grantRet, grantResp, deadline, lastStatus, clock,
                   nGrant, nPolls, nSleeps, nFollow, thrown>>

InlineAwait ==
    /\ pc \in {"inline_await", "inline_retry_await"}
    /\ \E r \in InlineAnswers : resp' = r
    /\ pc' = IF pc = "inline_await" THEN "inline_handle" ELSE "inline_retry_handle"
    /\ UNCHANGED <<config, nPending, phase, fn, attempt, session, waitSession, grantService,
                   data, grantRet, grantResp, deadline, lastStatus, clock, nDown,
                   nGrant, nPolls, nSleeps, nFollow, lastReq, diag, thrown, exitCode>>

\* if (response.status === 401 || response.status === 403)
inlineAuthStatus(st) == st \in {401, 403}

InlineHandle ==
    /\ pc = "inline_handle"
    /\ LET eb == readErrorBody(resp.body) IN
        IF isOk(resp) THEN
            /\ Exit(0, <<>>)
            /\ UNCHANGED <<data, grantRet, thrown>>
        ELSE IF inlineAuthStatus(resp.status) THEN
            IF isAutoRequestError(client, eb.data) /\ autoEnabled
            THEN /\ data' = eb.data
                 /\ grantRet' = "inline"
                 /\ pc' = "grant_call"
                 /\ UNCHANGED <<diag, thrown, exitCode>>
            ELSE IF eb.data.truthy
            THEN /\ Exit(1, describeAuthError(client, eb.data.obj, inlineService(cmd)).lines)
                 /\ UNCHANGED <<data, grantRet, thrown>>
            ELSE /\ Throw(IF cmd = "unshare" THEN "Failed to remove permission (status)"
                          ELSE IF eb.text THEN "response text" ELSE "Auth error (status)")
                 /\ UNCHANGED <<data, grantRet, diag, exitCode>>
        ELSE
            /\ Throw(IF cmd = "unshare" THEN "Failed to remove permission (status)"
                     ELSE "Send failed (status)")
            /\ UNCHANGED <<data, grantRet, diag, exitCode>>
    /\ UNCHANGED <<config, nPending, phase, fn, attempt, session, waitSession, grantService,
                   resp, grantResp, deadline, lastStatus, clock, nDown, nGrant,
                   nPolls, nSleeps, nFollow, lastReq>>

\* the answer to the request repeated after ensureGrant
InlineRetryHandle ==
    /\ pc = "inline_retry_handle"
    /\ IF isOk(resp) THEN
            /\ Exit(0, <<>>)
            /\ UNCHANGED thrown
       ELSE IF cmd = "unshare" THEN
            /\ Exit(1, describeAuthError(client, data.obj, "drive").lines)
            /\ UNCHANGED thrown
       ELSE
            /\ Throw("Send failed after grant (status)")
            /\ UNCHANGED <<diag, exitCode>>
    /\ UNCHANGED <<config, nPending, phase, fn, attempt, session, waitSession, grantService,
                   resp, data, grantRet, grantResp, deadline, lastStatus, clock,
                   nDown, nGrant, nPolls, nSleeps, nFollow, lastReq>>

----------------------------------------------------------------------------
(* The commands around the pipeline *)

\* the header set on the request that follows a redirect: fetch(downloadUrl)
followSession_Forward(s) == s

followSession(s) == Absent

\* the pipeline function returned to the command
Return ==
    /\ pc = "ret"
    /\ \/ /\ phase \in {"single", "batch", "patch"}
          /\ Exit(0, <<>>)
          /\ UNCHANGED <<config, nPending, phase, fn, attempt, session, waitSession,
                         grantService, resp, data, grantRet, grantResp, deadline,
                         lastStatus, clock, nDown, nGrant, nPolls, nSleeps,
                         nFollow, lastReq, thrown>>
       \/ /\ phase = "lookup"
          \* resolveRecipients: no match, or several without --yes, ends the run
          /\ \E resolved \in BOOLEAN :
                IF resolved
                THEN Enter("inline_call", "inline", "inline", "none")
                     /\ UNCHANGED <<currentService, grantService>>
                ELSE Exit(1, <<"No matches found">>)
                     /\ UNCHANGED <<config, nPending, phase, fn, attempt, session, waitSession,
                                    grantService, resp, data, grantRet, grantResp,
                                    deadline, lastStatus, clock, nDown, nGrant,
                                    nPolls, nSleeps, nFollow, lastReq, thrown>>
       \/ /\ phase = "info"
          \* info.folder, or for drive content a file that is no text file
          /\ \E usable \in BOOLEAN :
                IF usable
                THEN Enter("call", "content", "fetchGraphContent", "none")
                     /\ UNCHANGED <<currentService, grantService>>
                ELSE Throw("Cannot download a folder.")
                     /\ UNCHANGED <<config, nPending, phase, fn, attempt, session, waitSession,
                                    grantService, resp, data, grantRet, grantResp,
                                    deadline, lastStatus, clock, nDown, nGrant,
                                    nPolls, nSleeps, nFollow, lastReq, diag, exitCode>>
       \/ /\ phase = "search"
          \* result.value is empty, or its ids go into one chunk of the $batch
          /\ \E found \in BOOLEAN :
                IF found
                THEN Enter("call", "batch", "apiRequest", "none")
                     /\ UNCHANGED <<currentService, grantService>>
                ELSE Exit(0, <<"No files found">>)
                     /\ UNCHANGED <<config, nPending, phase, fn, attempt, session, waitSession,
                                    grantService, resp, data, grantRet, grantResp,
                                    deadline, lastStatus, clock, nDown, nGrant,
                                    nPolls, nSleeps, nFollow, lastReq, thrown>>
       \/ /\ phase = "page"
          \* cmdUpdate: pageInfo.parent?.database_id
          /\ \E parentDbId \in BOOLEAN :
                /\ IF parentDbId
                   THEN Enter("call", "schema", "notionApi", "none")
                   ELSE Enter("call", "patch", "notionApi", "none")
                /\ UNCHANGED <<currentService, grantService>>
       \/ /\ phase = "schema"
          /\ Enter("call", "patch", "notionApi", "none")
          /\ UNCHANGED <<currentService, grantService>>
       \/ /\ phase = "cacheList"
          /\ \E cached \in BOOLEAN :
                /\ IF cached
                   THEN Enter("call", "cacheContent", "fetchGraphContent", "none")
                   ELSE Enter("call", "info", "apiRequest", "none")
                /\ UNCHANGED <<currentService, grantService>>
       \/ /\ phase \in {"content", "cacheContent"}
          /\ IF resp.status \in RedirectStatuses /\ resp.location
             THEN /\ nFollow' = nFollow + 1
                  /\ lastReq' = Request("follow", followSession(session), Absent, clock)
                  /\ pc' = "follow_await"
                  /\ UNCHANGED <<diag, thrown, exitCode>>
             ELSE IF resp.status \in RedirectStatuses /\ cmd \in {"download", "content"}
             THEN /\ Throw("Download redirect missing location")
                  /\ UNCHANGED <<nFollow, lastReq, diag, exitCode>>
             ELSE IF phase = "content" /\ ~isOk(resp)
             THEN /\ Throw("Download failed (status)")
                  /\ UNCHANGED <<nFollow, lastReq, diag, exitCode>>
             ELSE /\ Exit(0, <<>>)
                  /\ UNCHANGED <<nFollow, lastReq, thrown>>
          /\ UNCHANGED <<config, nPending, phase, fn, attempt, session, waitSession,
                         grantService, resp, data, grantRet, grantResp, deadline,
                         lastStatus, clock, nDown, nGrant, nPolls, nSleeps>>

\* the pre-signed location answers
FollowAwait ==
    /\ pc = "follow_await"
    /\ \E ok \in BOOLEAN :
        IF ok \/ phase = "cacheContent"
        THEN Exit(0, <<>>) /\ UNCHANGED thrown
        ELSE Throw("Download failed (status)") /\ UNCHANGED <<diag, exitCode>>
    /\ UNCHANGED <<config, nPending, phase, fn, attempt, session, waitSession, grantService,
                   resp, data, grantRet, grantResp, deadline, lastStatus, clock,
                   nDown, nGrant, nPolls, nSleeps, nFollow, lastReq>>

swallows_All(ph) == TRUE

swallows_None(ph) == FALSE

\* drive convert probes its cache inside try { } catch { }, drive search
\* looks the paths up inside try { } catch { return {} }, and cmdUpdate of
\* notion-query.js fetches the schema inside try { } catch { schema = null }
swallows(ph) == ph \in {"cacheList", "cacheContent", "batch", "schema"}

\* an Error travels up: to the catch of the cache probe or of the path lookup,
\* or to main's catch, which prints it and exits with 1
Catch ==
    /\ pc = "throwing"
    /\ IF swallows(phase) /\ phase = "batch"
       THEN /\ Exit(0, <<"Search results">>)
            /\ UNCHANGED <<config, nPending, phase, fn, attempt, session, waitSession,
                           grantService, resp, data, grantRet, grantResp, deadline,
                           lastStatus, clock, nDown, nGrant, nPolls, nSleeps,
                           nFollow, lastReq, thrown>>
       ELSE IF swallows(phase) /\ phase = "schema"
       THEN /\ Enter("call", "patch", "notionApi", "none")
            /\ UNCHANGED <<currentService, grantService>>
       ELSE IF swallows(phase)
       THEN /\ Enter("call", "info", "apiRequest", "none")
            /\ UNCHANGED <<currentService, grantService>>
       ELSE /\ Exit(1, <<"Error: " , thrown>>)
            /\ UNCHANGED <<config, nPending, phase, fn, attempt, session, waitSession,
                           grantService, resp, data, grantRet, grantResp, deadline,
                           lastStatus, clock, nDown, nGrant, nPolls, nSleeps,
                           nFollow, lastReq, thrown>>

Next ==
    \/ Main
    \/ Call
    \/ Await
    \/ Handle
    \/ GrantCall
    \/ GrantAwait
    \/ GrantHandle
    \/ WaitCall
    \/ WaitCheck
    \/ PollAwait
    \/ PollHandle
    \/ Sleep
    \/ GrantReturn
    \/ InlineCall
    \/ InlineAwait
    \/ InlineHandle
    \/ InlineRetryHandle
    \/ Return
    \/ FollowAwait
    \/ Catch

Spec == Init /\ [][Next]_vars

\* another invocation of the CLI runs logout while the grant flow of this
\* one waits: clearAgentSession deletes the candidate files
OtherLogout ==
    /\ pc \in {"grant_await", "grant_handle", "wait_call", "wait_check", "poll_await",
               "poll_handle", "sleep", "granted"}
    /\ \E i \in 1..Len(files) : files[i].kind # "missing"
    /\ files' = clearAgentSession(files, 0)
    /\ UNCHANGED <<client, cmd, autoEnabled, currentService, pc, phase, fn, attempt,
                   session, waitSession, grantService, resp, data, grantRet, grantResp,
                   deadline, lastStatus, clock, nDown, nGrant, nPolls, nSleeps, nFollow,
                   lastReq, diag, thrown, exitCode, nPending, verdict, store, reg, search>>

NextRace ==
    \/ Next
    \/ OtherLogout

\* the commands with a concurrent logout
SpecRace == Init /\ [][NextRace]_vars

----------------------------------------------------------------------------
(* The classifier functions on every payload *)

InitClassify ==
    /\ client \in {"office", "notion"}
    /\ cmd = "classify"
    /\ autoEnabled = TRUE
    /\ files = <<Missing, Missing>>
    /\ currentService \in {"drive", "mail", "cal"}
    /\ pc = "classify"
    /\ phase = "none"
    /\ fn = "none"
    /\ attempt = 0
    /\ session = NoSession
    /\ waitSession = NoSession
    /\ grantService = Absent
    /\ resp = NoResp
    /\ data \in {NullData} \cup {ObjData(p) : p \in Payloads}
    /\ grantRet = "none"
    /\ grantResp = NoGrantResp
    /\ deadline = NoDeadline
    /\ lastStatus = Absent
    /\ clock = 0
    /\ nDown = 0
    /\ nGrant = 0
    /\ nPolls = 0
    /\ nSleeps = 0
    /\ nFollow = 0
    /\ lastReq = NoReq
    /\ diag = <<>>
    /\ thrown = Absent
    /\ exitCode = Running
    /\ nPending = 0
    /\ verdict = NoVerdict
    /\ store = NoStore
    /\ reg = NoReg
    /\ search = NoSearch

\* isAutoRequestError(data), and describeAuthError(data, service) as the
\* callers apply it: to a body that parsed to a truthy value
Classify ==
    /\ pc = "classify"
    /\ verdict' =
        [retryable |-> isAutoRequestError(client, data),
         kind |-> IF data.truthy
                  THEN describeAuthError(client, data.obj, currentService).kind
                  ELSE "none",
         lines |-> IF data.truthy
                   THEN describeAuthError(client, data.obj, currentService).lines
                   ELSE <<>>]
    /\ pc' = "classified"
    /\ UNCHANGED <<client, cmd, autoEnabled, currentService, files, phase, fn,
                   attempt, session, waitSession, grantService, resp, data,
                   grantRet, grantResp, deadline, lastStatus, clock, nDown, nGrant,
                   nPolls, nSleeps, nFollow, lastReq, diag, thrown, exitCode,
                   nPending, store, reg, search>>

NextClassify == Classify

SpecClassify == InitClassify /\ [][NextClassify]_vars

----------------------------------------------------------------------------
(* The session store on every state of the candidate files *)

\* what a candidate file may hold
FileContents ==
    {Str(FALSE, t, TRUE) : t \in Texts}
    \cup {Str(TRUE, "s2", FALSE), Str(TRUE, "", TRUE)}

FileStates ==
    {Missing, Unreadable} \cup {File(c) : c \in FileContents}
    \cup {WithMode(RawFile(t), WIDER_MODE) : t \in PlainTexts}

\* the ids saveAgentSession may be given
SessionIds ==
    {Str(FALSE, t, FALSE) : t \in Texts}
    \cup {Str(TRUE, "s1", TRUE), Str(TRUE, "", FALSE), Str(FALSE, "123", TRUE)}

InitStore ==
    /\ client \in {"office", "notion"}
    /\ cmd = "store"
    /\ autoEnabled = TRUE
    /\ files \in [1..NumCandidates -> FileStates]
    /\ currentService = "drive"
    /\ pc = "store"
    /\ phase = "none"
    /\ fn = "none"
    /\ attempt = 0
    /\ session = NoSession
    /\ waitSession = NoSession
    /\ grantService = Absent
    /\ resp = NoResp
    /\ data = NullData
    /\ grantRet = "none"
    /\ grantResp = NoGrantResp
    /\ deadline = NoDeadline
    /\ lastStatus = Absent
    /\ clock = 0
    /\ nDown = 0
    /\ nGrant = 0
    /\ nPolls = 0
    /\ nSleeps = 0
    /\ nFollow = 0
    /\ lastReq = NoReq
    /\ diag = <<>>
    /\ thrown = Absent
    /\ exitCode = Running
    /\ nPending = 0
    /\ verdict = NoVerdict
    /\ store = NoStore
    /\ reg = NoReg
    /\ search = NoSearch

rest == <<client, cmd, autoEnabled, currentService, phase, fn, attempt, session,
          waitSession, grantService, resp, data, grantRet, grantResp, deadline,
          lastStatus, clock, nDown, nGrant, nPolls, nSleeps, nFollow, lastReq,
          diag, exitCode, nPending, verdict, reg, search>>

\* saveAgentSession(id); writing over a file that cannot be opened throws
StoreSave ==
    /\ pc = "store"
    /\ \E id \in SessionIds :
        IF files[1].kind = "unreadable"
        THEN /\ pc' = "throwing"
             /\ thrown' = "EACCES"
             /\ store' = [store EXCEPT !.op = "save", !.id = id, !.before = files]
             /\ UNCHANGED files
        ELSE /\ pc' = "saved"
             /\ files' = saveAgentSession(files, id)
             /\ store' = [store EXCEPT !.op = "save", !.id = id, !.before = files]
             /\ UNCHANGED thrown
    /\ UNCHANGED rest

\* getAgentSession()
StoreLoad ==
    /\ pc \in {"store", "saved"}
    /\ pc' = "loaded"
    /\ store' = [store EXCEPT !.op = "load", !.after = store.op,
                              !.ret = getAgentSession(files)]
    /\ UNCHANGED <<files, thrown, rest>>

\* clearAgentSession(); unlink may fail on any candidate that exists
StoreClear ==
    /\ pc = "store"
    /\ \E failAt \in {0} \cup {i \in 1..Len(files) : files[i].kind # "missing"} :
        /\ files' = clearAgentSession(files, failAt)
        /\ store' = [store EXCEPT !.op = "clear", !.failAt = failAt, !.before = files]
    /\ pc' = "cleared"
    /\ UNCHANGED <<thrown, rest>>

NextStore ==
    \/ StoreSave
    \/ StoreLoad
    \/ StoreClear

SpecStore == InitStore /\ [][NextStore]_vars

----------------------------------------------------------------------------
(* login: doLogin of office-cli.js, cmdLogin of notion-query.js *)

\* the agentSessionId of an answer of the broker: missing, a session id, or
\* a string of whitespace
RegIds ==
    {NoField, StrField(Str(FALSE, "s1", FALSE)), StrField(Str(FALSE, "123", FALSE)),
     StrField(Str(TRUE, "", FALSE))}

\* registration.expiresIn: missing, a number of seconds, a number JSON.parse
\* reads as Infinity (1e999), or a string that is no number
ExpiresInValues ==
    {[t |-> "undefined", n |-> 0], [t |-> "number", n |-> 0], [t |-> "number", n |-> 3],
     [t |-> "infinity", n |-> 0], [t |-> "text", n |-> 0]}

\* the number Infinity: above every time the clock of the model reaches
INFINITY_MS == 2147483647

\* Date.now() + ((registration.expiresIn || 300) * 1000) of notion-query.js
loginDeadline(e, now) ==
    CASE e.t = "text" -> [isNaN |-> TRUE, ms |-> 0]
      [] e.t = "infinity" -> [isNaN |-> FALSE, ms |-> INFINITY_MS]
      [] e.t = "number" /\ e.n # 0 -> [isNaN |-> FALSE, ms |-> now + e.n * 1000]
      [] OTHER -> [isNaN |-> FALSE, ms |-> now + 300 * 1000]

\* office-cli.js: 10 * 60 * 1e3
LOGIN_WAIT_MS == 600000

RegBody(st, id, m) == [kind |-> "reg", st |-> st, id |-> id, message |-> m]

RegPollAnswers ==
    {[status |-> 200, body |-> RegBody(st, id, Absent), location |-> FALSE] :
        st \in {"pending", "approved", "denied", "expired"}, id \in RegIds}
    \cup {[status |-> 200, body |-> RegBody(st, NoField, "msg"), location |-> FALSE] :
            st \in {"denied", "expired"}}
    \cup {[status |-> 500, body |-> RegBody("none", NoField, Absent), location |-> FALSE]}

\* the id login received last, among those it passed to saveAgentSession
lastGiven(old, id) == IF id.t = "string" /\ trim(id.s) # "" THEN id ELSE old

\* if (x.agentSessionId?.trim()) saveAgentSession(x.agentSessionId)
savedIfGiven(fs, id) ==
    IF id.t = "string" /\ trim(id.s) # "" THEN saveAgentSession(fs, id.s) ELSE fs

InitLogin ==
    /\ client \in {"office", "notion"}
    /\ cmd = "login"
    /\ autoEnabled \in BOOLEAN
    /\ files \in SessionFileStates
    /\ currentService = "drive"
    /\ pc = "login_init"
    /\ phase = "none"
    /\ fn = "none"
    /\ attempt = 0
    /\ session = NoSession
    /\ waitSession = NoSession
    /\ grantService = Absent
    /\ resp = NoResp
    /\ data = NullData
    /\ grantRet = "none"
    /\ grantResp = NoGrantResp
    /\ deadline = NoDeadline
    /\ lastStatus = Absent
    /\ clock = 0
    /\ nDown = 0
    /\ nGrant = 0
    /\ nPolls = 0
    /\ nSleeps = 0
    /\ nFollow = 0
    /\ lastReq = NoReq
    /\ diag = <<>>
    /\ thrown = Absent
    /\ exitCode = Running
    /\ nPending = 0
    /\ verdict = NoVerdict
    /\ store = NoStore
    /\ reg = NoReg
    /\ search = NoSearch

loginRest == <<client, cmd, autoEnabled, currentService, phase, fn, attempt, session,
               waitSession, grantService, data, grantRet, grantResp, nDown, nGrant,
               nFollow, nPending, verdict, store, search>>

\* POST /api/agent/init and what follows up to the loop
LoginInit ==
    /\ pc = "login_init"
    /\ lastReq' = Request("init", Absent, Absent, clock)
    /\ \/ /\ Throw("Failed to start agent registration")
          /\ UNCHANGED <<files, deadline, diag, reg>>
       \/ \E id \in RegIds, e \in ExpiresInValues :
            /\ reg' = [initId |-> id, expiresIn |-> e, lastId |-> lastGiven(NoField, id)]
            /\ files' = savedIfGiven(files, id)
            /\ diag' = IF id.t = "string" /\ trim(id.s) # ""
                       THEN <<IF client = "office"
                              THEN "Agent session saved (pending approval)."
                              ELSE "Session saved (pending approval).",
                              "Waiting for approval...">>
                       ELSE <<"Waiting for approval...">>
            /\ deadline' = IF client = "office"
                           THEN [isNaN |-> FALSE, ms |-> clock + LOGIN_WAIT_MS]
                           ELSE loginDeadline(e, clock)
            /\ pc' = "login_check"
            /\ UNCHANGED thrown
    /\ UNCHANGED <<loginRest, resp, lastStatus, clock, nPolls, nSleeps, exitCode>>

\* the head of the loop: while (true) in office-cli.js,
\* while (Date.now() < deadline) in notion-query.js
LoginCheck ==
    /\ pc = "login_check"
    /\ IF client = "notion" /\ ~beforeDeadline(clock, deadline)
       THEN /\ Throw("Timed out waiting for login approval.")
            /\ UNCHANGED <<nPolls, lastReq>>
       ELSE /\ nPolls < MaxPolls
            /\ nPolls' = nPolls + 1
            /\ lastReq' = Request("regpoll", Absent, Absent, clock)
            /\ pc' = "login_poll_await"
            /\ UNCHANGED thrown
    /\ UNCHANGED <<loginRest, files, resp, deadline, lastStatus, clock, nSleeps, diag,
                   exitCode, reg>>

\* the broker answers the registration poll
LoginPollAwait ==
    /\ pc = "login_poll_await"
    /\ \E a \in RegPollAnswers, l \in Latencies :
        /\ resp' = a
        /\ clock' = clock + l
        /\ lastReq' = [lastReq EXCEPT !.took = l]
    /\ pc' = "login_handle"
    /\ UNCHANGED <<loginRest, files, deadline, lastStatus, nPolls, nSleeps, diag, thrown,
                   exitCode, reg>>

\* if (status.status === "approved" && status.agentSessionId)
loginDone(st, id) == st = "approved" /\ fieldTruthy(id)

\* the loop body after the fetch
LoginHandle ==
    /\ pc = "login_handle"
    /\ IF ~isOk(resp)
       THEN /\ Throw("Registration poll failed")
            /\ UNCHANGED <<files, lastStatus, diag, exitCode>>
       ELSE LET st == resp.body.st
                id == resp.body.id
            IN  /\ files' = savedIfGiven(files, id)
                /\ lastStatus' = st
                /\ IF loginDone(st, id)
                   THEN /\ Exit(0, IF client = "office"
                                    THEN <<"Agent session saved.", "Next: run request.">>
                                    ELSE <<"Login successful.">>)
                        /\ UNCHANGED thrown
                   ELSE IF st = "denied"
                   THEN /\ Throw(IF Truthy(resp.body.message) THEN resp.body.message
                                 ELSE "Registration denied.")
                        /\ UNCHANGED <<diag, exitCode>>
                   ELSE IF st = "expired"
                   THEN /\ Throw(IF client = "office"
                                 THEN "Registration expired. Run login again."
                                 ELSE IF Truthy(resp.body.message) THEN resp.body.message
                                 ELSE "Registration expired.")
                        /\ UNCHANGED <<diag, exitCode>>
                   ELSE IF client = "office" /\ clock > deadline.ms
                   THEN /\ Throw("Timed out waiting for approval.")
                        /\ UNCHANGED <<diag, exitCode>>
                   ELSE /\ pc' = "login_sleep"
                        /\ UNCHANGED <<diag, thrown, exitCode>>
    /\ reg' = IF isOk(resp) THEN [reg EXCEPT !.lastId = lastGiven(reg.lastId, resp.body.id)]
               ELSE reg
    /\ UNCHANGED <<loginRest, resp, deadline, clock, nPolls, nSleeps, lastReq>>

\* setTimeout(resolve, 2e3) / sleep(AUTO_REQUEST_POLL_MS)
LoginSleep ==
    /\ pc = "login_sleep"
    /\ clock' = clock + AUTO_REQUEST_POLL_MS
    /\ nSleeps' = nSleeps + 1
    /\ pc' = "login_check"
    /\ UNCHANGED <<loginRest, files, resp, deadline, lastStatus, nPolls, lastReq, diag,
                   thrown, exitCode, reg>>

NextLogin ==
    \/ LoginInit
    \/ LoginCheck
    \/ LoginPollAwait
    \/ LoginHandle
    \/ LoginSleep
    \/ Catch

SpecLogin == InitLogin /\ [][NextLogin]_vars

\* login where every step that can be taken is taken in the end: each fetch
\* returns and each timer fires
SpecLoginLive == SpecLogin /\ WF_vars(NextLogin)

----------------------------------------------------------------------------
(* Drive search: the path lookups of the chunks, run under Promise.all *)

\* chunks of one search the model follows
NumBatches == 2

\* what the proxy answers a /$batch request with
SearchAnswers ==
    {r \in DownstreamAnswers("office") :
        /\ ~r.location
        /\ r.status \in {200, 403, 500}
        /\ r.body \in {BodyEmpty, BodyObj(WithError("no_grant")), BodyObj(EmptyPayload)}
        /\ (r.status = 500 => r.body = BodyEmpty)}

\* parentReference.path of the item of a chunk: under the root or in a folder
RawPaths == {"/drive/root:", "/drive/root:/Docs"}

\* rawPath.replace(/^\/drive\/root:?/, "") || "/"
cleanPath(raw) == IF raw = "/drive/root:" THEN "/" ELSE "/Docs"

\* the paths object a chunk builds from batchResult.responses: the item of
\* chunk b has the id b; a response without a path leaves the object empty
PathsOf(b) == {{}} \cup {{[id |-> b, path |-> cleanPath(raw)]} : raw \in RawPaths}

\* Object.assign(pathMap, paths): the keys of paths replace those of pathMap
assign(map, paths) ==
    {e \in map : \A p \in paths : p.id # e.id} \cup paths

\* for (const paths of batchResults) Object.assign(pathMap, paths)
RECURSIVE mergePaths(_)
mergePaths(bs) ==
    IF Len(bs) = 0 THEN {}
    ELSE assign(mergePaths(SubSeq(bs, 1, Len(bs) - 1)), bs[Len(bs)].paths)

batchAttempt_Shared(b, bs) ==
    IF \E c \in 1..Len(bs) : bs[c].attempt > 0 THEN 1 ELSE 0

\* the attempt parameter of the apiRequest call of chunk b
batchAttempt(b, bs) == bs[b].attempt

InitSearch ==
    /\ client = "office"
    /\ cmd = "search"
    /\ autoEnabled \in BOOLEAN
    /\ files \in SessionFileStates
    /\ currentService = "drive"
    /\ pc = "batches"
    /\ phase = "batch"
    /\ fn = "apiRequest"
    /\ attempt = 0
    /\ session = NoSession
    /\ waitSession = NoSession
    /\ grantService = Absent
    /\ resp = NoResp
    /\ data = NullData
    /\ grantRet = "none"
    /\ grantResp = NoGrantResp
    /\ deadline = NoDeadline
    /\ lastStatus = Absent
    /\ clock = 0
    /\ nDown = 0
    /\ nGrant = 0
    /\ nPolls = 0
    /\ nSleeps = 0
    /\ nFollow = 0
    /\ lastReq = NoReq
    /\ diag = <<>>
    /\ thrown = Absent
    /\ exitCode = Running
    /\ nPending = 0
    /\ verdict = NoVerdict
    /\ store = NoStore
    /\ reg = NoReg
    /\ search = [batches |-> [b \in 1..NumBatches |-> [NoBatch EXCEPT !.pc = "call"]],
                 pathMap |-> {}, first |-> 0, peak |-> 0]

searchRest ==
    <<client, cmd, autoEnabled, currentService, files, phase, fn, attempt, session,
      waitSession, grantService, resp, data, grantRet, grantResp, deadline, lastStatus,
      clock, nDown, nGrant, nPolls, nSleeps, nFollow, lastReq, thrown, nPending, verdict,
      store, reg>>

\* chunk b goes on with record r, the process keeps running
batchStep(b, r) ==
    /\ search' = [search EXCEPT
                    !.batches[b] = r,
                    !.first = IF r.pc = "done" /\ @ = 0 THEN b ELSE @,
                    !.peak = LET bs == [search.batches EXCEPT ![b] = r]
                                 n == Cardinality({c \in 1..Len(bs) :
                                        bs[c].pc \in {"grantAwait", "poll", "pollAwait"}})
                             IN IF n > @ THEN n ELSE @]
    /\ UNCHANGED <<pc, exitCode, diag>>

\* the callback of chunk b returns the object paths (the catch returns {})
batchReturn(b, r, paths) == batchStep(b, [r EXCEPT !.pc = "done", !.paths = paths])

\* process.exit(1) inside the callback of a chunk ends every chunk
batchExit(b, r, lines) ==
    /\ Exit(1, lines)
    /\ search' = [search EXCEPT !.batches[b] = r]

\* apiRequest of chunk b: read the session, send the /$batch request
BatchCall(b) ==
    /\ pc = "batches"
    /\ search.batches[b].pc = "call"
    /\ LET s == getAgentSession(files)
           r == search.batches[b] IN
        IF sessionMissing(s)
        THEN batchExit(b, r, <<LoginHint(client, fn)>>)
        ELSE batchStep(b, [r EXCEPT !.pc = "await", !.nDown = @ + 1])
    /\ UNCHANGED searchRest

\* apiRequest of chunk b: the answer to the /$batch request
BatchAnswer(b) ==
    /\ pc = "batches"
    /\ search.batches[b].pc = "await"
    /\ \E a \in SearchAnswers :
        LET r == [search.batches[b] EXCEPT !.answer = a]
            e == readErrorBody(a.body) IN
        IF a.status \in AuthStatuses THEN
            IF retryGuard(batchAttempt(b, search.batches), autoEnabled,
                          isAutoRequestError(client, e.data))
            THEN batchStep(b, [r EXCEPT !.pc = "grantAwait", !.nGrant = @ + 1])
            ELSE IF e.data.truthy
            THEN batchExit(b, r, describeAuthError(client, e.data.obj, currentService).lines)
            ELSE batchReturn(b, r, {})
        ELSE IF ~isOk(a) THEN batchReturn(b, r, {})
        ELSE \E paths \in PathsOf(b) : batchReturn(b, r, paths)
    /\ UNCHANGED searchRest

\* ensureGrant of chunk b: the answer to its grant request
BatchGrantAnswer(b) ==
    /\ pc = "batches"
    /\ search.batches[b].pc = "grantAwait"
    /\ \E g \in GrantAnswers :
        LET r == search.batches[b] IN
        IF g.st = "error" THEN batchReturn(b, r, {})
        ELSE IF g.autoApproved
        THEN batchStep(b, [r EXCEPT !.pc = "call", !.attempt = @ + 1])
        ELSE batchStep(b, [r EXCEPT !.pc = "poll"])
    /\ UNCHANGED searchRest

\* waitForGrantApproval of chunk b: one more poll while the deadline allows
BatchPoll(b) ==
    /\ pc = "batches"
    /\ search.batches[b].pc = "poll"
    /\ LET r == search.batches[b] IN
        \E inTime \in BOOLEAN :
            IF inTime /\ r.nPolls < MaxPolls
            THEN batchStep(b, [r EXCEPT !.pc = "pollAwait", !.nPolls = @ + 1])
            ELSE batchReturn(b, r, {})
    /\ UNCHANGED searchRest

\* waitForGrantApproval of chunk b: the answer to a poll
BatchPollAnswer(b) ==
    /\ pc = "batches"
    /\ search.batches[b].pc = "pollAwait"
    /\ \E a \in PollAnswers :
        LET r == search.batches[b]
            e == readErrorBody(a.body) IN
        IF ~isOk(a) THEN
            IF e.data.truthy
            THEN batchExit(b, r, describeAuthError(client, e.data.obj, "msgraph").lines)
            ELSE batchReturn(b, r, {})
        ELSE IF a.body.st = "approved"
        THEN batchStep(b, [r EXCEPT !.pc = "call", !.attempt = @ + 1])
        ELSE IF a.body.st \in {"denied", "expired"} THEN batchReturn(b, r, {})
        ELSE batchStep(b, [r EXCEPT !.pc = "poll"])
    /\ UNCHANGED searchRest

\* Promise.all has resolved: merge in the order of the chunks and print
Merge ==
    /\ pc = "batches"
    /\ \A b \in 1..NumBatches : search.batches[b].pc = "done"
    /\ search' = [search EXCEPT !.pathMap = mergePaths(search.batches)]
    /\ Exit(0, <<"Search results">>)
    /\ UNCHANGED searchRest

NextSearch ==
    \/ \E b \in 1..NumBatches : BatchCall(b)
    \/ \E b \in 1..NumBatches : BatchAnswer(b)
    \/ \E b \in 1..NumBatches : BatchGrantAnswer(b)
    \/ \E b \in 1..NumBatches : BatchPoll(b)
    \/ \E b \in 1..NumBatches : BatchPollAnswer(b)
    \/ Merge

\* the path lookups of drive search
SpecSearch == InitSearch /\ [][NextSearch]_vars

----------------------------------------------------------------------------
(* Properties *)

PipelineFns == {"apiRequest", "fetchGraphContent", "notionApi"}

\* the field of a payload a client's classifier tests: notion-query.js lets
\* a field of `details` stand for the top-level field of the same name
fieldRead(cl, p, f) ==
    IF cl = "notion" /\ p.details[f] # Absent THEN p.details[f] ELSE p[f]

codeIsRetryable(code) ==
    code \in {"no_grant", "grant_expired", "single_use_exhausted"}

\* the parsed error body of a response, null when it did not parse
parsedBody(r) == IF r.body.kind = "object" THEN ObjData(r.body.obj) ELSE NullData

bodyIsRetryable(cl, r) ==
    /\ r.body.kind = "object"
    /\ codeIsRetryable(fieldRead(cl, r.body.obj, "error"))

\* C1: one pipeline call started with attempt = 0 sends at most 2 requests to
\* the proxy and at most 1 grant request; when the retry, too, is answered 403
\* with a retryable body, the call has sent exactly 2 requests and the process
\* ends with exit code 1.
C1_RetryBound ==
    fn \in PipelineFns =>
        /\ nDown <= 2
        /\ nGrant <= 1
        /\ attempt <= 1
        /\ (attempt = 1 /\ resp.status = 403 /\ bodyIsRetryable(client, resp)
            /\ pc # "handle"
                => pc = "done" /\ exitCode = 1 /\ nDown = 2 /\ nGrant = 1)

C1_Witness ==
    /\ fn \in PipelineFns
    /\ pc = "done"
    /\ exitCode = 1
    /\ attempt = 1
    /\ nDown = 2
    /\ nGrant = 1
    /\ lastStatus = "approved"
    /\ resp.status = 403
    /\ bodyIsRetryable(client, resp)

\* C2: a pipeline call starts the grant flow only when the status is 401, 403
\* or 429, attempt is 0, auto-request is enabled and the parsed body is
\* retryable; on any other 401/403/429 response it sends no grant request and
\* ends with exit code 1 when the body parsed to a payload, with a thrown
\* error when it did not.
C2_GrantFlowGuard ==
    fn \in PipelineFns =>
        /\ (pc = "grant_call" /\ grantRet = "pipeline" =>
                /\ resp.status \in {401, 403, 429}
                /\ attempt = 0
                /\ autoEnabled
                /\ bodyIsRetryable(client, resp))
        /\ ((resp.status \in {401, 403, 429} /\ pc \notin {"handle", "grant_call"})
                => /\ ~(attempt = 0 /\ autoEnabled /\ bodyIsRetryable(client, resp))
                   /\ nGrant = attempt
                   /\ lastReq.kind = "proxy"
                   /\ IF parsedBody(resp).truthy
                      THEN pc = "done" /\ exitCode = 1 /\ thrown = Absent
                      ELSE thrown # Absent)

C2_Witness ==
    /\ fn \in PipelineFns
    /\ pc = "done"
    /\ exitCode = 1
    /\ thrown = Absent
    /\ attempt = 0
    /\ ~autoEnabled
    /\ resp.status = 429
    /\ bodyIsRetryable(client, resp)
    /\ nGrant = 0

\* C3: when the answer to the grant request carries autoApproved = true, the
\* grant flow returns to its caller as approved without any GET of the poll
\* URL and without any sleep.
C3_AutoApprovedSkipsPolling ==
    (grantResp.st = "ok" /\ grantResp.autoApproved /\ pc # "grant_handle") =>
        /\ nPolls = 0
        /\ nSleeps = 0
        /\ clock = 0
        /\ pc \notin {"wait_call", "wait_check", "poll_await", "poll_handle", "sleep"}
        /\ \E i \in 1..Len(diag) :
                diag[i] = "Access granted automatically (within policy)."
        /\ (pc = "throwing" => grantRet = "pipeline" \/ grantRet = "inline")

C3_Witness ==
    /\ grantResp.st = "ok"
    /\ grantResp.autoApproved
    /\ grantRet = "pipeline"
    /\ attempt = 1
    /\ pc = "await"
    /\ nPolls = 0
    /\ nSleeps = 0

WaitPcs == {"wait_check", "poll_await", "poll_handle", "sleep"}

\* C4: when the broker answers `pending` n times and then `approved` before
\* the deadline, waitForGrantApproval returns after exactly n + 1 polls and
\* exactly n sleeps, each of AUTO_REQUEST_POLL_MS = 2000 ms.
C4_PendingThenApproved ==
    /\ pc = "wait_check" => nSleeps = nPolls
    /\ pc \in {"poll_await", "poll_handle", "sleep"} => nSleeps = nPolls - 1
    /\ nPending <= nPolls
    /\ (pc = "wait_check" /\ nPolls >= 1) =>
            clock = lastReq.at + lastReq.took + 2000
    /\ (pc = "sleep" /\ nPending = nPolls) => nSleeps = nPending - 1
    /\ (lastStatus = "approved" /\ pc \notin {"main", "wait_call"}) =>
            /\ pc \notin WaitPcs
            /\ nPolls = nSleeps + 1
            /\ nPending <= nSleeps
            /\ (nPending = nPolls - 1 => nSleeps = nPending)
            /\ thrown # TimeoutMessage
            /\ (pc = "granted" => lastReq.kind = "poll" /\ lastReq.at < deadline.ms)

C4_Witness ==
    /\ pc = "granted"
    /\ lastStatus = "approved"
    /\ nPending = 2
    /\ nPolls = 3
    /\ nSleeps = 2
    /\ clock = 2 * 2000

\* C5 as stated: the timeout error is thrown no later than one polling
\* interval after the deadline.
C5_Original ==
    (thrown = TimeoutMessage /\ ~deadline.isNaN /\ nPolls >= 1) =>
        clock <= deadline.ms + AUTO_REQUEST_POLL_MS

\* C5: when the broker never answers with a terminal status, no poll is
\* started once the clock has reached the deadline (expiresAt, or the start
\* plus 5 minutes when expiresAt is absent), and the error "Timed out waiting
\* for authorization approval." is thrown one polling interval after the
\* answer to the last poll, that is, later than the deadline by less than the
\* duration of that poll plus one polling interval; it is thrown at once when
\* the deadline has passed before the first poll.
C5_TimeoutBound ==
    /\ pc \in WaitPcs =>
            deadline = IF grantResp.expiresAt.given
                       THEN [isNaN |-> grantResp.expiresAt.isNaN,
                             ms |-> grantResp.expiresAt.ms]
                       ELSE [isNaN |-> FALSE, ms |-> 5 * 60 * 1000]
    /\ lastReq.kind = "poll" => ~deadline.isNaN /\ lastReq.at < deadline.ms
    /\ thrown = TimeoutMessage =>
            /\ deadline.isNaN \/ clock >= deadline.ms
            /\ lastStatus \notin TerminalStatuses
            /\ nPolls = 0 => clock = 0
            /\ nPolls >= 1 =>
                    /\ nSleeps = nPolls
                    /\ clock = lastReq.at + lastReq.took + AUTO_REQUEST_POLL_MS
                    /\ clock < deadline.ms + lastReq.took + AUTO_REQUEST_POLL_MS
    /\ (pc = "throwing" /\ lastReq.kind = "poll" /\ isOk(resp)
        /\ resp.body.st \notin TerminalStatuses) => thrown = TimeoutMessage

C5_Witness ==
    /\ pc = "throwing"
    /\ thrown = TimeoutMessage
    /\ nPolls = 3
    /\ lastStatus = "pending"
    /\ deadline = [isNaN |-> FALSE, ms |-> 5000]
    /\ clock > deadline.ms + AUTO_REQUEST_POLL_MS

\* C6: in the poll loop the first terminal status ends the loop: `approved`
\* returns, `denied` and `expired` throw an error with the server's message
\* (a fixed text when the server sent none), every other status goes on to
\* the sleep, and no poll is sent after a terminal status was read.
C6_TerminalEndsLoop ==
    [][ /\ (pc = "poll_handle" /\ isOk(resp)) =>
            /\ lastStatus' = resp.body.st
            /\ resp.body.st = "approved" =>
                    pc' = "granted" /\ thrown' = Absent
            /\ resp.body.st \in {"denied", "expired"} =>
                    /\ pc' = "throwing"
                    /\ thrown' = IF resp.body.message # Absent THEN resp.body.message
                                 ELSE IF resp.body.st = "denied"
                                 THEN "Authorization denied."
                                 ELSE "Authorization request expired."
            /\ resp.body.st \notin TerminalStatuses =>
                    pc' = "sleep" /\ thrown' = Absent
        /\ lastStatus \in TerminalStatuses =>
            /\ pc \notin WaitPcs
            /\ nPolls' <= nPolls
            /\ pc' \notin WaitPcs
      ]_vars

C6_Witness ==
    /\ pc = "throwing"
    /\ lastStatus = "expired"
    /\ thrown = "msg"
    /\ nPolls = 2
    /\ lastReq.kind = "poll"

\* no candidate file holds a session
noStoredSession ==
    \A i \in 1..Len(files) : files[i] = Missing \/ files[i] = RawFile("")

ProxyCommands ==
    {"list", "download", "content", "convert", "convertForce", "unshare",
     "send", "sendLookup", "reply", "query"}

\* C9: when no session can be loaded, every command that calls the proxy
\* (through apiRequest, fetchGraphContent, notionApi or the inline paths of
\* mail send, mail reply and drive unshare) prints the line that tells the
\* operator to log in and exits with code 1, having sent no request to the
\* proxy and no grant request.
C9_NoSessionNoRequest ==
    (noStoredSession /\ cmd \in ProxyCommands) =>
        /\ nDown = 0
        /\ nGrant = 0
        /\ nPolls = 0
        /\ nFollow = 0
        /\ lastReq = NoReq
        /\ thrown = Absent
        /\ pc \in {"main", "call", "inline_call", "done"}
        /\ pc = "done" =>
                /\ exitCode = 1
                /\ Len(diag) = 1
                /\ diag[1] \in
                    {"No agent session. Run 'node notion-query.js login' first.",
                     "Not registered. Run 'login' to create an agent session.",
                     "Not registered. Run './office-cli.js login' first."}

C9_Witness ==
    /\ noStoredSession
    /\ cmd = "reply"
    /\ pc = "done"
    /\ exitCode = 1
    /\ diag = <<"Not registered. Run './office-cli.js login' first.">>
    /\ nDown = 0

\* C10: on a content endpoint a 301/302 answer with a Location header is
\* followed by exactly one further GET, to that location, and this request
\* carries no X-Agent-Session header: in drive download, drive content and in
\* both download paths of drive convert.
C10_RedirectFollowedOnce ==
    /\ nFollow <= 1
    /\ lastReq.kind = "follow" =>
            /\ lastReq.session = Absent
            /\ nFollow = 1
            /\ fn = "fetchGraphContent"
            /\ cmd \in {"download", "content", "convert", "convertForce"}
            /\ resp.status \in {301, 302}
            /\ resp.location
    /\ (/\ fn = "fetchGraphContent"
        /\ resp.status \in {301, 302}
        /\ resp.location
        /\ pc \notin {"handle", "ret"}) =>
            /\ nFollow = 1
            /\ lastReq.kind = "follow"
            /\ pc \in {"follow_await", "throwing", "done"}
    /\ nFollow = 1 => lastReq.kind = "follow"

C10_Witness ==
    /\ cmd = "convert"
    /\ phase = "cacheContent"
    /\ pc = "follow_await"
    /\ session = "s1"
    /\ lastReq.kind = "follow"
    /\ lastReq.session = Absent
    /\ nFollow = 1
    /\ resp.status = 302

RuleOrder ==
    <<"NoSession", "NoGrant", "AccountNotLinked", "ScopeOrTokenExpired",
      "ElevationRequired", "Generic">>

\* the condition of the i-th rule on the fields e
ruleMatches(i, e) ==
    CASE i = 1 -> e.error = "no_agent_session"
      [] i = 2 -> codeIsRetryable(e.error)
      [] i = 3 -> e.error = "no_oauth_token" /\ e.connectUrl # Absent
      [] i = 4 -> e.reauthorizeUrl # Absent
      [] i = 5 -> e.elevateUrl # Absent
      [] OTHER -> TRUE

firstMatchingRule(e) ==
    RuleOrder[CHOOSE i \in 1..6 :
                ruleMatches(i, e) /\ \A j \in 1..(i - 1) : ~ruleMatches(j, e)]

\* the fields a client's classifier reads from the payload p
fieldsRead(cl, p) == [f \in FieldNames |-> fieldRead(cl, p, f)]

\* C7 as stated: isAutoRequestError is true exactly when the error field of
\* the payload is one of no_grant, grant_expired, single_use_exhausted, in
\* both clients.
C7_Original ==
    pc = "classified" =>
        (verdict.retryable <=> (data.truthy /\ codeIsRetryable(data.obj.error)))

\* C7: isAutoRequestError is true exactly when the error code the client
\* reads is one of no_grant, grant_expired, single_use_exhausted, and false
\* for every other code, for an absent code and for a null payload;
\* office-cli.js reads the error field of the payload, notion-query.js reads
\* the error field of the payload's `details` object when that has one and
\* the error field of the payload otherwise.
C7_RetryableCodes ==
    pc = "classified" =>
        /\ verdict.retryable <=>
                (data.truthy /\ codeIsRetryable(fieldRead(client, data.obj, "error")))
        /\ client = "office" =>
                (verdict.retryable <=> (data.truthy /\ codeIsRetryable(data.obj.error)))
        /\ ~data.truthy => ~verdict.retryable

C7_Witness ==
    /\ pc = "classified"
    /\ client = "notion"
    /\ data.truthy
    /\ data.obj.error = "no_grant"
    /\ data.obj.details.error = "rate_limited"
    /\ ~verdict.retryable

\* C8 as stated: describeAuthError reports the first rule, in the order
\* NoSession, NoGrant, AccountNotLinked, ScopeOrTokenExpired,
\* ElevationRequired, Generic, that the fields of the payload match.
C8_Original ==
    (pc = "classified" /\ data.truthy) =>
        verdict.kind = firstMatchingRule([f \in FieldNames |-> data.obj[f]])

\* C8: describeAuthError reports the first rule, in the order NoSession,
\* NoGrant, AccountNotLinked, ScopeOrTokenExpired, ElevationRequired,
\* Generic, that matches the fields the client reads: the fields of the
\* payload in office-cli.js, and in notion-query.js the fields of the payload
\* overridden by those of its `details` object.  A payload with error =
\* no_grant and an elevateUrl, and no details, is reported as NoGrant.
C8_FirstMatchWins ==
    (pc = "classified" /\ data.truthy) =>
        /\ verdict.kind = firstMatchingRule(fieldsRead(client, data.obj))
        /\ (data.obj.error = "no_grant" /\ data.obj.details = NoFields) =>
                verdict.kind = "NoGrant"
        /\ client = "office" =>
                verdict.kind = firstMatchingRule([f \in FieldNames |-> data.obj[f]])

C8_Witness ==
    /\ pc = "classified"
    /\ data.truthy
    /\ data.obj.error = "no_grant"
    /\ data.obj.elevateUrl = "url"
    /\ data.obj.reauthorizeUrl = "url"
    /\ data.obj.details = NoFields
    /\ verdict.kind = "NoGrant"

IdFields == {"agentSessionId", "agentSession", "session"}

\* C11: for every id and every prior state of the candidate files,
\* saveAgentSession(id) followed immediately by getAgentSession() returns
\* the id trimmed of its surrounding whitespace, also when the id is itself
\* valid JSON or trims to the empty string.
C11_SaveThenLoad ==
    (pc = "loaded" /\ store.after = "save") =>
        \/ store.ret = store.id.text
        \* null stands for the empty id
        \/ store.id.text = "" /\ store.ret = NoSession

\* a candidate that holds no session: it is missing, unreadable, empty, or
\* holds JSON without a non-empty string in a session-id field
holdsNoSession(f) ==
    \/ f.kind \in {"missing", "unreadable"}
    \/ f.content.text = ""
    \/ /\ jsonParse(f.content.text).ok
       /\ \A k \in IdFields :
            LET v == jsonParse(f.content.text)[k] IN
            ~(v.t = "string" /\ v.s.text # "")

\* C12: when every candidate file is missing, empty, unreadable or holds
\* malformed content, getAgentSession returns null and does not throw.
C12_MalformedIsAbsent ==
    (/\ pc = "loaded"
     /\ store.after = "none"
     /\ \A i \in 1..Len(files) : holdsNoSession(files[i]))
        => store.ret = NoSession /\ thrown = Absent

\* a candidate that exists and is not empty
existsNonEmpty(f) ==
    f.kind = "unreadable" \/ (f.kind = "file" /\ f.content.text # "")

\* C13: getAgentSession returns the session of the first candidate, in the
\* order primary then legacy, that exists and is not empty; the value of a
\* later candidate is never returned.
C13_FirstCandidateWins ==
    (pc = "loaded" /\ store.after = "none") =>
        \A i \in 1..Len(files) :
            (existsNonEmpty(files[i])
             /\ \A j \in 1..(i - 1) : ~existsNonEmpty(files[j]))
                => store.ret = getAgentSession(<<files[i]>>)

\* C14: clearAgentSession does not throw and deletes every candidate that
\* exists: a failed deletion is swallowed and the candidates after it are
\* still deleted, so that only a file whose own deletion failed remains.
C14_ClearDeletesAll ==
    pc = "cleared" =>
        /\ thrown = Absent
        /\ \A i \in 1..Len(files) :
                files[i].kind # "missing" => i = store.failAt

\* C15 as stated: in both clients the request command, unless the answer is
\* auto-approved, polls until a terminal status or the deadline before it
\* returns.
C15_Original ==
    (cmd = "request" /\ pc = "done" /\ grantResp.st = "ok"
     /\ ~grantResp.autoApproved) =>
        /\ nGrant = 1
        /\ nPolls >= 1 \/ thrown = TimeoutMessage

\* C15: the request command sends exactly one grant request in both
\* clients and none to the proxy.  notion-query.js then, unless the answer
\* is auto-approved, polls until a terminal status or the deadline and exits
\* with 0 exactly after `approved`; office-cli.js never polls: it prints the
\* approval URL and returns with exit code 0.
C15_RequestCycle ==
    cmd = "request" =>
        /\ nGrant <= 1
        /\ nDown = 0
        /\ grantResp.st # "none" => nGrant = 1
        /\ (pc = "done" /\ grantResp.st = "ok" /\ grantResp.autoApproved) =>
                exitCode = 0 /\ nPolls = 0
        /\ client = "office" =>
                /\ nPolls = 0
                /\ (pc = "done" /\ grantResp.st = "ok" /\ ~grantResp.autoApproved) =>
                        /\ exitCode = 0
                        /\ diag = <<"Authorisation request created.",
                                    "Approve at: approveUrl",
                                    "Once approved, try your command again.">>
        /\ (client = "notion" /\ pc = "done" /\ grantResp.st = "ok"
            /\ ~grantResp.autoApproved) =>
                /\ nPolls >= 1 \/ thrown = TimeoutMessage
                /\ exitCode = 0 <=> lastStatus = "approved"
                /\ exitCode = 0 => diag[Len(diag)] = "Access granted."

C15_Witness ==
    /\ cmd = "request"
    /\ client = "office"
    /\ pc = "done"
    /\ exitCode = 0
    /\ grantResp.st = "ok"
    /\ ~grantResp.autoApproved
    /\ nGrant = 1
    /\ nPolls = 0
    /\ lastReq.kind = "grant"

\* a field that delivers a session id
idGiven(f) == f.t = "string" /\ trim(f.s) # ""

\* C16: once a registration poll has answered approved, login has ended with
\* exit code 0 and a stored session, whether the broker delivered the
\* agentSessionId in the init answer, in the poll answer or in both
C16_ApprovedEndsLogin ==
    (/\ cmd = "login"
     /\ lastStatus = "approved"
     /\ idGiven(reg.initId) \/ idGiven(resp.body.id)) =>
        /\ pc = "done"
        /\ exitCode = 0
        /\ getAgentSession(files) # NoSession

\* the grant flow a pipeline call started has ended in denied, expired or
\* timeout, and the Error is on its way up
grantFailed ==
    /\ pc = "throwing"
    /\ grantRet = "pipeline"
    /\ lastStatus \in {"denied", "expired"} \/ thrown = TimeoutMessage

\* the grant flow of this call ended in Approved
grantApproved == grantResp.autoApproved \/ lastStatus = "approved"

\* a pipeline call sends its downstream request once more
resends == fn \in PipelineFns /\ nDown >= 1 /\ nDown' = nDown + 1

C18_Inline429StartsGrant ==
    (/\ fn = "inline"
     /\ autoEnabled
     /\ nDown = 1
     /\ pc \notin {"inline_await", "inline_handle"}
     /\ resp.status = 429
     /\ isAutoRequestError(client, readErrorBody(resp.body).data)) =>
        pc = "grant_call" \/ nGrant >= 1

\* the service a command of office-cli.js belongs to
belongsTo(c) ==
    CASE c \in {"list", "search", "download", "content", "convert", "convertForce",
                "unshare"} -> "drive"
      [] c \in {"send", "sendLookup", "reply"} -> "mail"
      [] c = "events" -> "cal"
      [] OTHER -> "none"

\* C19: a grant requested on behalf of a failing command of office-cli.js
\* carries the scopes and the duration of the command's service, and for the
\* people command a scope set that contains People.Read
C19_ScopesOfFailingCommand ==
    (client = "office" /\ grantRet \in {"pipeline", "inline"} /\ lastReq.kind = "grant") =>
        IF cmd = "people"
        THEN "People.Read" \in lastReq.body.scopes
        ELSE /\ lastReq.body.scopes = SCOPES(belongsTo(cmd))
             /\ lastReq.body.duration = GRANT_DURATION(belongsTo(cmd))

\* the times the poll loop of the running call printed the OAuth notice
oauthNotices == Cardinality({i \in DOMAIN diag : diag[i] = OAuthNotice})

\* C20: one poll loop prints "OAuth connection required" at most once,
\* whatever statuses the poll endpoint returns
C20_OAuthNoticeOnce == oauthNotices <= 1

\* a step of waitForGrantApproval that sends a GET of the poll URL
sendsPoll == pc = "wait_check" /\ nPolls' = nPolls + 1

\* C21 as stated: every GET of the poll URL, the first one included, is
\* preceded by a sleep of its own
C21_Original == [][sendsPoll => nSleeps = nPolls + 1]_vars

\* C21 amended: the first GET of the poll URL is sent without a sleep; every
\* later GET is sent right after one sleep of AUTO_REQUEST_POLL_MS = 2000 ms
\* that began when the answer before it had arrived
C21_SleepBetweenPolls ==
    [][sendsPoll =>
        /\ nSleeps = nPolls
        /\ lastReq'.kind = "poll"
        /\ lastReq'.at = clock
        /\ nPolls >= 1 =>
            /\ lastReq.kind = "poll"
            /\ clock = lastReq.at + lastReq.took + 2000]_vars

C21_Witness ==
    /\ pc = "poll_await"
    /\ lastReq.kind = "poll"
    /\ nPolls = 1
    /\ nSleeps = 0
    /\ nGrant = 1

\* C22: after saveAgentSession returned, the primary session file has
\* permission bits 0600, whether the call created the file or wrote over one
\* with wider permissions
C22_SavedFileOwnerOnly ==
    (pc = "saved" /\ store.op = "save") =>
        files[1].kind = "file" /\ files[1].mode = OWNER_ONLY

\* the pipeline or the poll loop ends the process with exit code 1 after
\* describeAuthError classified a parsed error body
exitsClassified == pc \in {"handle", "poll_handle"} /\ pc' = "done" /\ exitCode' = 1

\* C23: on every such path, in both clients, describeAuthError has printed
\* at least one line to standard error before the exit
C23_DiagnosisBeforeExit == [][exitsClassified => Len(diag') > Len(diag)]_vars

\* the Error in flight reaches the operator: main prints it to standard
\* error and the process exits with code 1
reachesOperator ==
    /\ pc' = "done"
    /\ exitCode' = 1
    /\ diag' = diag \o <<"Error: ", thrown>>

C25_SessionFilesUntouched ==
    [][/\ files' = files
       /\ getAgentSession(files') = getAgentSession(files)
       /\ session' # NoSession => session' = getAgentSession(files')]_vars

C25_Witness ==
    /\ pc = "done"
    /\ exitCode = 0
    /\ fn \in PipelineFns
    /\ nDown = 2
    /\ nGrant = 1
    /\ nPolls = 2
    /\ session = "s1"
    /\ getAgentSession(files) = "s1"

LoginLoopPcs == {"login_check", "login_poll_await", "login_handle", "login_sleep"}

\* the bound of the model stops the loop while a finite deadline lies ahead
\* of the clock, which every further round brings nearer by one interval
cutOffBeforeDeadline ==
    /\ pc = "login_check"
    /\ nPolls = MaxPolls
    /\ ~deadline.isNaN
    /\ deadline.ms < INFINITY_MS

C27_SessionOnlyToBroker ==
    (lastReq.kind # "none" /\ lastReq.session # NoSession) =>
        /\ lastReq.kind \in {"proxy", "grant", "poll"}
        /\ destination(lastReq.kind, grantResp) = "broker"

\* C29: every attempt of a pipeline function reads the session from disk
\* again: after a concurrent logout during the grant flow the retry sends no
\* downstream request and the process exits with code 1, and a request that
\* is sent carries the session that is on disk at that moment, not the one
\* the first attempt read
C29_RetryRereadsSession ==
    [][(pc = "call" /\ fn \in PipelineFns /\ pc' # "call") =>
          IF getAgentSession(files) = NoSession
          THEN /\ pc' = "done"
               /\ exitCode' = 1
               /\ nDown' = nDown
               /\ lastReq' = lastReq
          ELSE /\ nDown' = nDown + 1
               /\ session' = getAgentSession(files)
               /\ lastReq'.kind = "proxy"
               /\ lastReq'.session = getAgentSession(files)]_vars

C29_Witness ==
    /\ pc = "done"
    /\ exitCode = 1
    /\ fn \in PipelineFns
    /\ attempt = 1
    /\ nDown = 1
    /\ nGrant = 1
    /\ lastStatus = "approved"
    /\ session = "s1"
    /\ getAgentSession(files) = NoSession

\* C30: from the moment login receives a non-empty agentSessionId, in the
\* init answer or in a poll answer, getAgentSession returns the id received
\* last, also after the login ended in denied, expired or timeout
C30_LoginKeepsLastId ==
    (cmd = "login" /\ idGiven(reg.lastId)) => getAgentSession(files) = trim(reg.lastId.s)


\* the answer a chunk got is one apiRequest answers with a grant request
retryableAnswer(a) ==
    /\ a.status \in AuthStatuses
    /\ isAutoRequestError("office", readErrorBody(a.body).data)

\* chunk b took the step
batchMoved(b) == search'.batches[b] # search.batches[b]

\* C28: the path lookups of drive search are independent of each other: a
\* chunk sends at most 2 batch requests and at most 1 grant request; a step
\* of one chunk changes the books of no other chunk, and a chunk whose first
\* batch request is refused for a missing grant gets its own grant request
\* whatever the other chunks have done; the merged path map holds exactly
\* the paths the chunks returned, whatever order they completed in.
C28_BatchesIndependent ==
    /\ [](\A b \in 1..NumBatches :
            /\ search.batches[b].nDown <= 2
            /\ search.batches[b].nGrant <= 1
            /\ search.batches[b].attempt <= 1)
    /\ [][/\ \A b, c \in 1..NumBatches : (b # c /\ batchMoved(b)) => ~batchMoved(c)
          /\ \A b \in 1..NumBatches :
                (/\ search.batches[b].pc = "await"
                 /\ search.batches[b].attempt = 0
                 /\ batchMoved(b)
                 /\ autoEnabled
                 /\ retryableAnswer(search'.batches[b].answer))
                => (/\ search'.batches[b].pc = "grantAwait"
                    /\ search'.batches[b].nGrant = 1
                    /\ exitCode' = Running)]_vars
    /\ []((pc = "done" /\ exitCode = 0)
            => search.pathMap = UNION {search.batches[b].paths : b \in 1..NumBatches})

\* every chunk had its grant request outstanding at the same time, retried
\* and returned a path, and the last chunk completed first
C28_Witness ==
    /\ pc = "done"
    /\ exitCode = 0
    /\ search.peak = NumBatches
    /\ search.first = NumBatches
    /\ \A b \in 1..NumBatches :
        /\ search.batches[b].nGrant = 1
        /\ search.batches[b].nDown = 2
        /\ search.batches[b].paths # {}
    /\ Cardinality(search.pathMap) = NumBatches

====
